---- MODULE Spec2Model ----
(***************************************************************************)
(* Triage & prioritisation engine: deterministic classifier, override      *)
(* classifier, urgency scoring engine, due-date assignment and the         *)
(* orchestrating pipeline / batch routes.                                   *)
(*                                                                         *)
(* Scores are fixed-point integers in hundredths of a point wherever the   *)
(* source uses a float (raw_score, adjusted_score); weights are integers   *)
(* in hundredths. Dates are day numbers; day d falls on weekday d % 7 with *)
(* 0 = Monday, as date.weekday() does.                                      *)
(***************************************************************************)
EXTENDS Integers, Sequences, FiniteSets, TLC

VARIABLES
    \* ---- due-date assignment (services/assignment.py)
    scored_emails,      \* the batch handed to assign_due_dates
    settings,           \* the settings dict handed to assign_due_dates
    today,              \* date.today() as read by assign_due_dates
    assignments,        \* the list assign_due_dates returned
    apc,                \* "input" while the batch is built, "assigned" after the call
    summary,            \* what get_assignment_summary returned for the assignments
    \* ---- urgency scoring (services/scoring.py)
    email_dict,         \* the email dict handed to score_email, as the extractors read it
    score_result,       \* the dict score_email returned
    stale_stage,        \* the tuple apply_stale_escalation returned inside score_email
    floor_stage,        \* the tuple apply_urgency_floor returned inside score_email
    spc,                \* "input" before the call of score_email, "scored" after it
    deadline_text,      \* the day-of-week term in the text _find_deadline_in_text reads
    deadline_today,     \* datetime.now().date() as read by _find_deadline_in_text
    deadline_date,      \* the date _find_deadline_in_text returned
    dpc,                \* "input" before the call of _find_deadline_in_text, "found" after it
    \* ---- deterministic classifier (services/classifier_deterministic.py)
    det_email,          \* the email dict handed to classify_deterministic
    det_user_email,     \* its user_email argument ("" when none is given)
    det_result,         \* what classify_deterministic returned
    cpc,                \* "input" before the call, "classified" after it
    \* ---- override classifier (services/classifier_override.py)
    ovr_email,          \* the email dict handed to check_override
    ovr_category,       \* its current_category argument
    ovr_first_name,     \* its first_name argument
    ovr_db,             \* its db argument
    VIP_SENDERS,        \* the module's list of VIP addresses
    VIP_DOMAINS,        \* the module's list of VIP domains
    ovr_result,         \* what check_override returned
    opc,                \* "input" before the call, "checked" after it
    \* ---- pipeline and batch routes (services/pipeline.py, routes/emails.py)
    graph_inbox,        \* the messages the Graph inbox can deliver, each with its age
    manual_requests,    \* number of reclassify and approve requests served
    emails,             \* the emails table, with the urgency_scores row of each email
    classification_log, \* the classification_log table, in insertion order
    override_log,       \* the override_log table, in insertion order
    now,                \* datetime.utcnow(), in days
    ppc,                \* run_full_pipeline: "idle", "phase4" inside the AI loop, or
                        \* "failed" after a run that an exception ended
    remaining_unprocessed,  \* the rows phase 4 has still to classify
    ai_batch_response,  \* what the last POST /classify-ai answered
    \* ---- a second execution of run_full_pipeline on the same event loop
    other_ppc,          \* its position: "idle", "phase4" or "failed"
    other_remaining_unprocessed  \* the rows its phase 4 has still to classify

avars == <<scored_emails, settings, today, assignments, apc, summary>>

svars == <<email_dict, score_result, stale_stage, floor_stage, spc>>

dvars == <<deadline_text, deadline_today, deadline_date, dpc>>

cvars == <<det_email, det_user_email, det_result, cpc>>

ovars == <<ovr_email, ovr_category, ovr_first_name, ovr_db, VIP_SENDERS, VIP_DOMAINS,
           ovr_result, opc>>

gvars == <<graph_inbox, manual_requests>>

pvars == <<emails, classification_log, override_log, now, ppc, remaining_unprocessed,
           ai_batch_response>>

rvars == <<other_ppc, other_remaining_unprocessed>>

vars == <<scored_emails, settings, today, assignments, apc, summary,
          email_dict, score_result, stale_stage, floor_stage, spc,
          deadline_text, deadline_today, deadline_date, dpc,
          det_email, det_user_email, det_result, cpc,
          ovr_email, ovr_category, ovr_first_name, ovr_db, VIP_SENDERS, VIP_DOMAINS,
          ovr_result, opc,
          graph_inbox, manual_requests,
          emails, classification_log, override_log, now, ppc, remaining_unprocessed,
          ai_batch_response,
          other_ppc, other_remaining_unprocessed>>

\* ------------------------------------------------------------------------
\* Bounds of the model
\* ------------------------------------------------------------------------
MaxBatch == 4
MaxTaskLimit == 1
MaxDeadlineDays == 8
MaxOverdueDays == 7
MaxThreadCount == 5
MaxStaleDays == 12

\* the absent value of a nullable column or dict entry
None == -1

\* ------------------------------------------------------------------------
\* services/scoring.py
\* ------------------------------------------------------------------------
\* weights in hundredths
SIGNAL_WEIGHTS ==
    [explicit_deadline |-> 25,
     sender_seniority  |-> 15,
     importance_flag   |-> 10,
     urgency_language  |-> 15,
     thread_velocity   |-> 10,
     client_external   |-> 5,
     age_of_email      |-> 10,
     followup_overdue  |-> 10]

SignalNames ==
    <<"explicit_deadline", "sender_seniority", "importance_flag", "urgency_language",
      "thread_velocity", "client_external", "age_of_email", "followup_overdue">>

URGENCY_FLOOR_THRESHOLD == 90

STALE_ESCALATION_CURVE ==
    <<[days_min |-> 0,  days_max |-> 3,   bonus_per_day |-> 2,  force_today |-> FALSE],
      [days_min |-> 4,  days_max |-> 5,   bonus_per_day |-> 5,  force_today |-> FALSE],
      [days_min |-> 6,  days_max |-> 10,  bonus_per_day |-> 10, force_today |-> FALSE],
      [days_min |-> 11, days_max |-> 999, bonus_per_day |-> 0,  force_today |-> TRUE]>>

\* The email as the extractors read it.
\*   deadline     <<>> when _find_deadline_in_text finds no date, else <<d>>
\*                with d = (deadline_date - today).days
\*   sender       what from_address is: empty, a VIP inside or outside the
\*                user's domain, another external or internal address
\*   importance   the Graph importance flag
\*   language     the first urgency class whose pattern matches the text, in
\*                the order strong, medium, mild; "none" when none does
\*   thread_count emails of the conversation received in the last 24 hours
\*   received     received_at: missing, an unparseable string, or a time
\*                `hours` whole hours before now
\*   category_id  the category the dict carries
\*   text         what the dict holds under subject, body_preview and body: no
\*                such key ("missing"), None ("null"), '' ("empty") or a
\*                non-empty string ("text")
TextFields == {"subject", "body_preview", "body"}

TextStates == {"missing", "null", "empty", "text"}

AllText == [f \in TextFields |-> "text"]

SenderKinds == {"empty", "vip_internal", "vip_external", "external", "internal"}

ReceivedHours ==
    {-5, 1, 6, 18} \cup {24 * d : d \in 1..MaxStaleDays}
        \cup {24 * STALE_ESCALATION_CURVE[4].days_max,
              24 * (STALE_ESCALATION_CURVE[4].days_max + 1)}

ReceivedValues ==
    {[kind |-> "missing", hours |-> 0], [kind |-> "unparseable", hours |-> 0]}
        \cup {[kind |-> "ok", hours |-> h] : h \in ReceivedHours}

ScoringEmails ==
    [deadline : {<<>>} \cup {<<d>> : d \in (0 - MaxOverdueDays)..MaxDeadlineDays},
     sender : SenderKinds,
     importance : {"high", "normal", "low"},
     language : {"strong", "medium", "mild", "none"},
     thread_count : 0..MaxThreadCount,
     received : ReceivedValues,
     category_id : {2, 4},
     text : {AllText}]

\* email.get(field, "").lower(): the default '' stands in for a missing key
\* only, a stored None is returned as it is and has no method lower
lower_raises(e) == \E f \in TextFields : e.text[f] = "null"

\* the first statements of extract_explicit_deadline, the first extractor
\* score_email calls, are the three lower() calls; score_email has no handler
score_email_raises(e) == lower_raises(e)

extract_explicit_deadline(e) ==
    IF e.deadline = <<>> THEN 0
    ELSE LET days_until == e.deadline[1]
         IN  IF days_until < 0 THEN 100
             ELSE IF days_until = 0 THEN 100
             ELSE IF days_until = 1 THEN 85
             ELSE IF days_until = 2 THEN 70
             ELSE IF days_until = 3 THEN 55
             ELSE IF days_until \in {4, 5} THEN 40
             ELSE IF days_until \in {6, 7} THEN 25
             ELSE 10

extract_sender_seniority(e) ==
    IF e.sender = "empty" THEN 10
    ELSE IF e.sender \in {"vip_internal", "vip_external"} THEN 90
    ELSE IF e.sender = "external" THEN 40
    ELSE IF e.sender = "internal" THEN 20
    ELSE 10

extract_importance_flag(e) ==
    IF e.importance = "high" THEN 80
    ELSE IF e.importance = "low" THEN 0 - 20
    ELSE 0

extract_urgency_language(e) ==
    IF e.language = "strong" THEN 90
    ELSE IF e.language = "medium" THEN 60
    ELSE IF e.language = "mild" THEN 0 - 10
    ELSE 0

extract_thread_velocity(e) ==
    IF e.thread_count >= 5 THEN 80
    ELSE IF e.thread_count >= 3 THEN 60
    ELSE IF e.thread_count = 2 THEN 40
    ELSE IF e.thread_count = 1 THEN 20
    ELSE 0

extract_client_external(e) ==
    IF e.sender \in {"vip_external", "external"} THEN 50 ELSE 0

extract_age_of_email(e) ==
    IF e.received.kind # "ok" THEN 0
    ELSE LET hours_old == e.received.hours
         IN  IF hours_old < 2 THEN 0
             ELSE IF hours_old < 12 THEN 10
             ELSE IF hours_old < 24 THEN 20
             ELSE IF hours_old < 48 THEN 30
             ELSE 40

Min(a, b) == IF a < b THEN a ELSE b

Max(a, b) == IF a > b THEN a ELSE b

extract_followup_overdue(e) ==
    IF e.category_id # 4 THEN 0
    ELSE IF e.deadline = <<>> THEN 0
    ELSE LET days_overdue == 0 - e.deadline[1]
         IN  IF days_overdue > 0 THEN Min(days_overdue * 15, 100) ELSE 0

extract_signals(e) ==
    [explicit_deadline |-> extract_explicit_deadline(e),
     sender_seniority  |-> extract_sender_seniority(e),
     importance_flag   |-> extract_importance_flag(e),
     urgency_language  |-> extract_urgency_language(e),
     thread_velocity   |-> extract_thread_velocity(e),
     client_external   |-> extract_client_external(e),
     age_of_email      |-> extract_age_of_email(e),
     followup_overdue  |-> extract_followup_overdue(e)]

\* sum over the signals of signal * weight, in hundredths of a point
RECURSIVE WeightedSumFrom(_, _)
WeightedSumFrom(signals, k) ==
    IF k > Len(SignalNames) THEN 0
    ELSE signals[SignalNames[k]] * SIGNAL_WEIGHTS[SignalNames[k]]
            + WeightedSumFrom(signals, k + 1)

weighted_sum_of(signals) == WeightedSumFrom(signals, 1)

\* mutant: the weighted sum is not clamped
raw_score_unclamped(weighted_sum) == weighted_sum

\* raw_score = max(0, min(100, weighted_sum)), in hundredths
raw_score_of(weighted_sum) == Max(0, Min(100 * 100, weighted_sum))

\* (now - received_at).days: whole days, rounded toward minus infinity
stale_days_of(e) == e.received.hours \div 24

\* index of the first tier of the curve that holds stale_days, 0 when none does
RECURSIVE TierFrom(_, _)
TierFrom(stale_days, k) ==
    IF k > Len(STALE_ESCALATION_CURVE) THEN 0
    ELSE IF STALE_ESCALATION_CURVE[k].days_min <= stale_days
            /\ stale_days <= STALE_ESCALATION_CURVE[k].days_max
         THEN k
         ELSE TierFrom(stale_days, k + 1)

\* int(x) of a non-negative x given in hundredths
IntOf(x) == x \div 100

\* mutant: the last tier sets the flag and leaves the score as it is
apply_stale_escalation_flag_only(e, raw_score) ==
    IF e.received.kind # "ok"
    THEN [adjusted_score |-> raw_score, stale_days |-> 0, stale_bonus |-> 0,
          force_today |-> FALSE]
    ELSE LET stale_days == stale_days_of(e)
             k == TierFrom(stale_days, 1)
         IN  IF k = 0
             THEN [adjusted_score |-> Max(0, Min(100 * 100, raw_score)),
                   stale_days |-> stale_days, stale_bonus |-> 0, force_today |-> FALSE]
             ELSE IF STALE_ESCALATION_CURVE[k].force_today
             THEN [adjusted_score |-> raw_score, stale_days |-> stale_days,
                   stale_bonus |-> 0, force_today |-> TRUE]
             ELSE LET stale_bonus == (stale_days - STALE_ESCALATION_CURVE[k].days_min + 1)
                                        * STALE_ESCALATION_CURVE[k].bonus_per_day
                  IN  [adjusted_score |-> Max(0, Min(100 * 100, raw_score + 100 * stale_bonus)),
                       stale_days |-> stale_days, stale_bonus |-> stale_bonus,
                       force_today |-> FALSE]

\* returns (adjusted_score, stale_days, stale_bonus, force_today);
\* raw_score and adjusted_score in hundredths, stale_bonus in whole points
apply_stale_escalation(e, raw_score) ==
    IF e.received.kind # "ok"
    THEN [adjusted_score |-> raw_score, stale_days |-> 0, stale_bonus |-> 0,
          force_today |-> FALSE]
    ELSE LET stale_days == stale_days_of(e)
             k == TierFrom(stale_days, 1)
         IN  IF k = 0
             THEN [adjusted_score |-> Max(0, Min(100 * 100, raw_score)),
                   stale_days |-> stale_days, stale_bonus |-> 0, force_today |-> FALSE]
             ELSE IF STALE_ESCALATION_CURVE[k].force_today
             THEN [adjusted_score |-> 100 * 100, stale_days |-> stale_days,
                   stale_bonus |-> IntOf(100 * 100 - raw_score), force_today |-> TRUE]
             ELSE LET stale_bonus == (stale_days - STALE_ESCALATION_CURVE[k].days_min + 1)
                                        * STALE_ESCALATION_CURVE[k].bonus_per_day
                  IN  [adjusted_score |-> Max(0, Min(100 * 100, raw_score + 100 * stale_bonus)),
                       stale_days |-> stale_days, stale_bonus |-> stale_bonus,
                       force_today |-> FALSE]

\* mutant: the floor is compared with > instead of >=
apply_urgency_floor_strict(adjusted_score, urgency_floor) ==
    [final_score |-> adjusted_score,
     floor_override |-> adjusted_score > 100 * urgency_floor]

\* returns (final_score, floor_override); urgency_floor in whole points
apply_urgency_floor(adjusted_score, urgency_floor) ==
    [final_score |-> adjusted_score,
     floor_override |-> adjusted_score >= 100 * urgency_floor]

\* int(round(x)) of a non-negative x in hundredths: ties go to the even integer
RoundToInt(x) ==
    LET q == x \div 100
        r == x % 100
    IN  IF r < 50 THEN q
        ELSE IF r > 50 THEN q + 1
        ELSE IF q % 2 = 0 THEN q ELSE q + 1

\* what one call of score_email computes: the two stage tuples and the dict
\* it returns
score_email_run(e) ==
    LET signals == extract_signals(e)
        raw_score == raw_score_of(weighted_sum_of(signals))
        stale == apply_stale_escalation(e, raw_score)
        floor == apply_urgency_floor(stale.adjusted_score, URGENCY_FLOOR_THRESHOLD)
    IN  [stale |-> stale,
         floor |-> floor,
         result |->
            [urgency_score |-> RoundToInt(floor.final_score),
             raw_score |-> raw_score,
             stale_bonus |-> stale.stale_bonus,
             adjusted_score |-> stale.adjusted_score,
             stale_days |-> stale.stale_days,
             force_today |-> stale.force_today,
             floor_override |-> floor.floor_override,
             signals |-> signals]]

score_email(e) == score_email_run(e).result

NoEmail ==
    [deadline |-> <<>>, sender |-> "empty", importance |-> "normal", language |-> "none",
     thread_count |-> 0, received |-> [kind |-> "missing", hours |-> 0], category_id |-> 2,
     text |-> AllText]

ScoringIdle ==
    /\ email_dict = NoEmail
    /\ score_result = score_email_run(NoEmail).result
    /\ stale_stage = score_email_run(NoEmail).stale
    /\ floor_stage = score_email_run(NoEmail).floor
    /\ spc = "idle"

\* ------------------------------------------------------------------------
\* services/scoring.py: day-of-week deadlines of _find_deadline_in_text.
\* The text is one day-of-week term: an optional 'next' or 'this' followed by
\* a day name; no other deadline pattern matches such a text.
\* ------------------------------------------------------------------------
\* the day names, in the order of date.weekday(): DayNames[i + 1] is weekday i
DayNames == <<"monday", "tuesday", "wednesday", "thursday", "friday", "saturday", "sunday">>

DayTerms == [prefix : {"", "this", "next"}, day : {DayNames[i] : i \in 1..7}]

DAY_PATTERNS ==
    << [prefix |-> "next", day |-> "monday", target_day |-> 1],
       [prefix |-> "next", day |-> "tuesday", target_day |-> 2],
       [prefix |-> "next", day |-> "wednesday", target_day |-> 3],
       [prefix |-> "next", day |-> "thursday", target_day |-> 4],
       [prefix |-> "next", day |-> "friday", target_day |-> 5],
       [prefix |-> "next", day |-> "saturday", target_day |-> 6],
       [prefix |-> "next", day |-> "sunday", target_day |-> 7],
       [prefix |-> "this", day |-> "monday", target_day |-> 1],
       [prefix |-> "this", day |-> "tuesday", target_day |-> 2],
       [prefix |-> "this", day |-> "wednesday", target_day |-> 3],
       [prefix |-> "this", day |-> "thursday", target_day |-> 4],
       [prefix |-> "this", day |-> "friday", target_day |-> 5],
       [prefix |-> "this", day |-> "saturday", target_day |-> 6],
       [prefix |-> "this", day |-> "sunday", target_day |-> 7],
       [prefix |-> "", day |-> "monday", target_day |-> 1],
       [prefix |-> "", day |-> "tuesday", target_day |-> 2],
       [prefix |-> "", day |-> "wednesday", target_day |-> 3],
       [prefix |-> "", day |-> "thursday", target_day |-> 4],
       [prefix |-> "", day |-> "friday", target_day |-> 5] >>

\* re.search(pattern, text): the pattern of a bare day name is found in every
\* term naming that day, a 'next' or 'this' pattern only in the term with
\* that prefix
pattern_matches(pattern, text) ==
    /\ pattern.day = text.day
    /\ pattern.prefix = "" \/ pattern.prefix = text.prefix

days_ahead(pattern, t) ==
    LET d == (pattern.target_day - (t % 7)) % 7
    IN  IF d = 0 /\ pattern.prefix = "next" THEN 7 ELSE d

found_dates(text, t) ==
    {t + days_ahead(DAY_PATTERNS[i], t) :
        i \in {j \in 1..Len(DAY_PATTERNS) : pattern_matches(DAY_PATTERNS[j], text)}}

find_deadline_in_text(text, t) ==
    IF found_dates(text, t) = {} THEN None
    ELSE CHOOSE d \in found_dates(text, t) : \A o \in found_dates(text, t) : d <= o

DeadlineIdle ==
    /\ deadline_text = [prefix |-> "", day |-> "monday"]
    /\ deadline_today = 0
    /\ deadline_date = None
    /\ dpc = "idle"

\* ------------------------------------------------------------------------
\* services/assignment.py
\* ------------------------------------------------------------------------
DEFAULT_URGENCY_FLOOR == 90
DEFAULT_TIME_PRESSURE_THRESHOLD == 15

\* urgency scores the batch items are drawn from: below the time-pressure
\* threshold, and at the urgency floor
BatchScores == {10, DEFAULT_URGENCY_FLOOR}

ScoredEmail == [urgency_score : BatchScores, floor_override : BOOLEAN, force_today : BOOLEAN]

\* mutant: the split looks at floor_override alone
InFloorPool_floor_override_only(item) == item.floor_override

InFloorPool(item) == item.floor_override \/ item.force_today

floor_pool_of(batch) == SelectSeq(batch, InFloorPool)

\* mutant: the standard pool is split off by floor_override alone
NotInFloorPool_floor_override_only(item) == ~item.floor_override

NotInFloorPool(item) == ~InFloorPool(item)

\* list.sort(key=urgency_score, reverse=True): descending and stable
RECURSIVE CountAtLeast(_, _)
CountAtLeast(s, score) ==
    IF s = <<>> THEN 0
    ELSE (IF Head(s).urgency_score >= score THEN 1 ELSE 0) + CountAtLeast(Tail(s), score)

\* mutant: an item is put before the items of equal score
InsertByScore_before_equal(sorted, x) ==
    LET k == CountAtLeast(sorted, x.urgency_score + 1)
    IN  SubSeq(sorted, 1, k) \o <<x>> \o SubSeq(sorted, k + 1, Len(sorted))

InsertByScore(sorted, x) ==
    LET k == CountAtLeast(sorted, x.urgency_score)
    IN  SubSeq(sorted, 1, k) \o <<x>> \o SubSeq(sorted, k + 1, Len(sorted))

RECURSIVE SortByScoreDesc(_)
SortByScoreDesc(s) ==
    IF s = <<>> THEN <<>>
    ELSE InsertByScore(SortByScoreDesc(SubSeq(s, 1, Len(s) - 1)), s[Len(s)])

standard_pool_of(batch) == SortByScoreDesc(SelectSeq(batch, NotInFloorPool))

\* mutant: the negative slot count is not clamped to 0
available_today_slots_unclamped(task_limit, batch) ==
    task_limit - Len(floor_pool_of(batch))

available_today_slots_of(task_limit, batch) ==
    IF task_limit - Len(floor_pool_of(batch)) < 0 THEN 0
    ELSE task_limit - Len(floor_pool_of(batch))

days_until_friday(t) == (4 - (t % 7)) % 7

this_friday_of(t) == t + days_until_friday(t)

\* mutant: a result of 0 is not replaced by 7
days_until_next_monday_unforced(t) == (7 - (t % 7)) % 7

days_until_next_monday(t) ==
    IF (7 - (t % 7)) % 7 = 0 THEN 7 ELSE (7 - (t % 7)) % 7

next_monday_of(t) == t + days_until_next_monday(t)

FloorAssignment(item, t) ==
    [email_id |-> item.email_id,
     due_date |-> t,
     pool |-> "floor",
     assignment_reason |-> IF item.force_today THEN "stale_force_today" ELSE "urgency_floor",
     slot |-> "today"]

\* mutant: the items past the this_week capacity all go to next week
StandardAssignment_no_threshold(item, idx, task_limit, avail, threshold, t) ==
    LET tomorrow_end == avail + task_limit
        this_week_end == tomorrow_end + task_limit * 2
    IN  IF idx < avail
        THEN [email_id |-> item.email_id, due_date |-> t, pool |-> "standard",
              assignment_reason |-> "high_priority", slot |-> "today"]
        ELSE IF idx < tomorrow_end
        THEN [email_id |-> item.email_id, due_date |-> t + 1, pool |-> "standard",
              assignment_reason |-> "next_day", slot |-> "tomorrow"]
        ELSE IF idx < this_week_end
        THEN [email_id |-> item.email_id, due_date |-> this_friday_of(t), pool |-> "standard",
              assignment_reason |-> "this_week", slot |-> "this_week"]
        ELSE [email_id |-> item.email_id, due_date |-> next_monday_of(t), pool |-> "standard",
              assignment_reason |-> "next_week", slot |-> "next_week"]

\* the assignment of the standard-pool item at 0-based position idx
StandardAssignment(item, idx, task_limit, avail, threshold, t) ==
    LET tomorrow_end == avail + task_limit
        this_week_end == tomorrow_end + task_limit * 2
    IN  IF idx < avail
        THEN [email_id |-> item.email_id, due_date |-> t, pool |-> "standard",
              assignment_reason |-> "high_priority", slot |-> "today"]
        ELSE IF idx < tomorrow_end
        THEN [email_id |-> item.email_id, due_date |-> t + 1, pool |-> "standard",
              assignment_reason |-> "next_day", slot |-> "tomorrow"]
        ELSE IF idx < this_week_end
        THEN [email_id |-> item.email_id, due_date |-> this_friday_of(t), pool |-> "standard",
              assignment_reason |-> "this_week", slot |-> "this_week"]
        ELSE IF item.urgency_score < threshold
        THEN [email_id |-> item.email_id, due_date |-> None, pool |-> "standard",
              assignment_reason |-> "below_threshold", slot |-> "no_date"]
        ELSE [email_id |-> item.email_id, due_date |-> next_monday_of(t), pool |-> "standard",
              assignment_reason |-> "next_week", slot |-> "next_week"]

assign_due_dates(batch, stg, t) ==
    LET fp == floor_pool_of(batch)
        sp == standard_pool_of(batch)
        avail == available_today_slots_of(stg.task_limit, batch)
    IN  [i \in 1..Len(fp) |-> FloorAssignment(fp[i], t)]
        \o [i \in 1..Len(sp) |->
              StandardAssignment(sp[i], i - 1, stg.task_limit, avail,
                                 stg.time_pressure_threshold, t)]

\* ---- get_assignment_summary
Slots == {"today", "tomorrow", "this_week", "next_week", "no_date"}

Pools == {"floor", "standard"}

\* the task limit get_assignment_summary assumes
ASSUMED_TASK_LIMIT == 20

CountSlot(asgs, slot) == Cardinality({i \in 1..Len(asgs) : asgs[i].slot = slot})

CountPool(asgs, pool) == Cardinality({i \in 1..Len(asgs) : asgs[i].pool = pool})

\* floor_count: incremented for the assignments with slot today and pool floor
floor_count_of(asgs) ==
    Cardinality({i \in 1..Len(asgs) : asgs[i].slot = "today" /\ asgs[i].pool = "floor"})

\* the summary before get_assignment_summary is called
NoSummary ==
    [total |-> 0, by_slot |-> [slot \in Slots |-> 0], by_pool |-> [pool \in Pools |-> 0],
     today_count |-> 0, floor_overflow |-> FALSE, called |-> FALSE]

get_assignment_summary(asgs) ==
    [total |-> Len(asgs),
     by_slot |-> [slot \in Slots |-> CountSlot(asgs, slot)],
     by_pool |-> [pool \in Pools |-> CountPool(asgs, pool)],
     today_count |-> CountSlot(asgs, "today"),
     floor_overflow |-> floor_count_of(asgs) > ASSUMED_TASK_LIMIT,
     called |-> TRUE]

\* ------------------------------------------------------------------------
\* Deterministic classifier (services/classifier_deterministic.py)
\*
\* An address is a record [local, domain] ("local@domain"); a subject is the
\* sequence of the phrases it is made of, in order; a body is the set of the
\* phrases it contains; headers are the set of header names. A keyword or an
\* unanchored pattern matches a text when one of the text's phrases, lowered,
\* is that keyword; a ^-anchored pattern matches when the first phrase is.
\* ------------------------------------------------------------------------
MARKETING_DOMAINS ==
    {"mailchimp.com", "sendgrid.net", "constantcontact.com", "hubspot.com",
     "marketo.com", "campaign-monitor.com", "mailgun.org", "postmarkapp.com",
     "amazonses.com"}

NOTIFICATION_DOMAINS ==
    {"microsoft.com", "google.com", "apple.com", "github.com", "slack.com",
     "atlassian.com", "servicenow.com", "workday.com", "asana.com", "trello.com",
     "notion.so", "figma.com", "dropbox.com", "box.com", "zoom.us"}

CALENDAR_SENDERS ==
    {[local |-> "calendar-notification", domain |-> "google.com"],
     [local |-> "calendar", domain |-> "microsoft.com"],
     [local |-> "noreply", domain |-> "calendar.microsoft.com"],
     [local |-> "teams", domain |-> "microsoft.com"]}

TRAVEL_DOMAINS ==
    {"delta.com", "united.com", "aa.com", "southwest.com", "jetblue.com",
     "alaskaair.com", "spiritairlines.com", "frontier.com", "marriott.com",
     "hilton.com", "ihg.com", "hyatt.com", "choicehotels.com", "wyndham.com",
     "hertz.com", "enterprise.com", "avis.com", "budget.com", "nationalcar.com",
     "uber.com", "lyft.com", "expedia.com", "booking.com", "hotels.com",
     "kayak.com", "tripadvisor.com", "airbnb.com", "vrbo.com", "priceline.com"}

\* ^local@ patterns, as the local parts they match
MARKETING_SENDER_PATTERNS ==
    {"noreply", "no-reply", "marketing", "newsletter", "promotions", "deals", "offers"}

NOTIFICATION_SENDER_PATTERNS ==
    {"noreply", "no-reply", "notifications", "alerts", "donotreply",
     "mailer-daemon", "no_reply"}

MARKETING_SUBJECT_KEYWORDS ==
    {"unsubscribe", "% off", "percent off", "limited time", "sale", "deal",
     "promo code", "free shipping", "discount", "save now", "special offer"}

NOTIFICATION_SUBJECT_PATTERNS ==
    {"your order", "shipping update", "password reset", "security alert",
     "verification code", "new sign-in", "account activity",
     "confirm your email", "reset your password"}

\* the patterns anchored with ^ and the ones that match anywhere
CALENDAR_SUBJECT_PATTERNS ==
    [anchored |-> {"invitation:", "updated invitation:", "canceled:", "accepted:",
                   "declined:", "tentative:"},
     anywhere |-> {"meeting invitation", "event invitation"}]

TRAVEL_SUBJECT_KEYWORDS ==
    {"booking confirmation", "itinerary", "flight confirmation", "check-in",
     "reservation", "trip summary", "boarding pass", "e-ticket",
     "hotel confirmation"}

DET_URGENCY_KEYWORDS ==
    {"urgent", "asap", "important", "critical", "deadline", "action required",
     "immediate", "time sensitive"}

\* str.lower() on the strings of the model
lower(str) ==
    CASE str = "URGENT" -> "urgent"
      [] str = "List-Unsubscribe" -> "list-unsubscribe"
      [] str = "User@Company.com" -> "user@company.com"
      [] str = "Hi User," -> "hi user,"
      [] str = "User" -> "user"
      [] OTHER -> str

NoAddress == [local |-> "", domain |-> ""]

det_extract_domain(email_address) ==
    IF email_address = NoAddress THEN "" ELSE lower(email_address.domain)

PhrasesOf(subject) == {subject[i] : i \in 1..Len(subject)}

\* contains_pattern / contains_keyword on a set of phrases: is some entry of
\* the list found in the text
contains_keyword(phrases, keywords) == \E ph \in phrases : lower(ph) \in keywords

contains_pattern(subject, patterns) ==
    \/ Len(subject) > 0 /\ lower(subject[1]) \in patterns.anchored
    \/ \E i \in 1..Len(subject) : lower(subject[i]) \in patterns.anywhere

sender_matches(from_address, patterns) ==
    from_address # NoAddress /\ lower(from_address.local) \in patterns

is_sole_recipient(to_recipients, user_email) ==
    /\ Len(to_recipients) = 1
    /\ lower(to_recipients[1]) = lower(user_email)

user_in_cc_only(to_recipients, cc_recipients, user_email) ==
    /\ \A i \in 1..Len(to_recipients) : lower(to_recipients[i]) # lower(user_email)
    /\ \E i \in 1..Len(cc_recipients) : lower(cc_recipients[i]) = lower(user_email)

has_urgency_language(subject, body) ==
    contains_keyword(PhrasesOf(subject) \cup body, DET_URGENCY_KEYWORDS)

\* a rule's result; confidence in hundredths. NoResult is Python's None.
NoResult == [category_id |-> None, rule |-> "", confidence |-> 0]

Result(category_id, rule, confidence) ==
    [category_id |-> category_id, rule |-> rule, confidence |-> confidence]

check_calendar(email) ==
    IF \E ph \in email.body : lower(ph) \in {"text/calendar", ".ics"}
    THEN Result(8, "Calendar MIME type or .ics attachment detected", 95)
    ELSE IF contains_pattern(email.subject, CALENDAR_SUBJECT_PATTERNS)
    THEN Result(8, "Calendar subject pattern", 90)
    ELSE IF email.from_address # NoAddress
            /\ [local |-> lower(email.from_address.local),
                domain |-> lower(email.from_address.domain)] \in CALENDAR_SENDERS
    THEN Result(8, "Calendar system sender", 90)
    ELSE NoResult

\* mutant: Marketing without the skip of the Travel and Notification domains
check_marketing_any_domain(email) ==
    LET domain == det_extract_domain(email.from_address)
    IN  IF \E h \in email.headers : lower(h) = "list-unsubscribe"
        THEN Result(6, "List-Unsubscribe header present", 95)
        ELSE IF /\ sender_matches(email.from_address, MARKETING_SENDER_PATTERNS)
                /\ ~contains_keyword(PhrasesOf(email.subject), NOTIFICATION_SUBJECT_PATTERNS)
        THEN Result(6, "Marketing sender pattern", 85)
        ELSE IF domain \in MARKETING_DOMAINS
        THEN Result(6, "Marketing platform domain", 90)
        ELSE IF contains_keyword(PhrasesOf(email.subject), MARKETING_SUBJECT_KEYWORDS)
        THEN Result(6, "Marketing keyword in subject", 85)
        ELSE NoResult

check_marketing(email) ==
    LET domain == det_extract_domain(email.from_address)
    IN  IF domain \in TRAVEL_DOMAINS \/ domain \in NOTIFICATION_DOMAINS
        THEN NoResult
        ELSE IF \E h \in email.headers : lower(h) = "list-unsubscribe"
        THEN Result(6, "List-Unsubscribe header present", 95)
        ELSE IF /\ sender_matches(email.from_address, MARKETING_SENDER_PATTERNS)
                /\ ~contains_keyword(PhrasesOf(email.subject), NOTIFICATION_SUBJECT_PATTERNS)
        THEN Result(6, "Marketing sender pattern", 85)
        ELSE IF domain \in MARKETING_DOMAINS
        THEN Result(6, "Marketing platform domain", 90)
        ELSE IF contains_keyword(PhrasesOf(email.subject), MARKETING_SUBJECT_KEYWORDS)
        THEN Result(6, "Marketing keyword in subject", 85)
        ELSE NoResult

check_travel(email) ==
    IF det_extract_domain(email.from_address) \in TRAVEL_DOMAINS
    THEN Result(11, "Travel domain", 90)
    ELSE IF contains_keyword(PhrasesOf(email.subject), TRAVEL_SUBJECT_KEYWORDS)
    THEN Result(11, "Travel keyword in subject", 85)
    ELSE NoResult

check_notification(email, user_email) ==
    LET excluded == /\ is_sole_recipient(email.to_recipients, user_email)
                    /\ has_urgency_language(email.subject, email.body)
    IN  IF sender_matches(email.from_address, NOTIFICATION_SENDER_PATTERNS)
        THEN IF excluded THEN NoResult
             ELSE Result(7, "Notification sender pattern", 85)
        ELSE IF det_extract_domain(email.from_address) \in NOTIFICATION_DOMAINS
        THEN IF excluded THEN NoResult
             ELSE Result(7, "Notification domain", 88)
        ELSE IF contains_keyword(PhrasesOf(email.subject), NOTIFICATION_SUBJECT_PATTERNS)
        THEN Result(7, "Notification subject pattern", 85)
        ELSE NoResult

check_fyi(email, user_email) ==
    IF user_in_cc_only(email.to_recipients, email.cc_recipients, user_email)
    THEN IF has_urgency_language(email.subject, email.body) THEN NoResult
         ELSE Result(9, "User in CC field only", 88)
    ELSE IF Len(email.to_recipients) >= 3
    THEN IF has_urgency_language(email.subject, email.body) THEN NoResult
         ELSE Result(9, "Group email", 85)
    ELSE NoResult

\* the same rules with Marketing tried before Calendar
classify_deterministic_marketing_first(email, user_email) ==
    LET calendar == check_calendar(email)
        marketing == check_marketing(email)
        travel == check_travel(email)
        notification == check_notification(email, user_email)
        fyi == check_fyi(email, user_email)
    IN  IF marketing # NoResult THEN marketing
        ELSE IF calendar # NoResult THEN calendar
        ELSE IF travel # NoResult THEN travel
        ELSE IF user_email # "" /\ notification # NoResult THEN notification
        ELSE IF user_email # "" /\ fyi # NoResult THEN fyi
        ELSE NoResult

classify_deterministic(email, user_email) ==
    LET calendar == check_calendar(email)
        marketing == check_marketing(email)
        travel == check_travel(email)
        notification == check_notification(email, user_email)
        fyi == check_fyi(email, user_email)
    IN  IF calendar # NoResult THEN calendar
        ELSE IF marketing # NoResult THEN marketing
        ELSE IF travel # NoResult THEN travel
        ELSE IF user_email # "" /\ notification # NoResult THEN notification
        ELSE IF user_email # "" /\ fyi # NoResult THEN fyi
        ELSE NoResult

\* ---- the emails the classifier is run on
MaxSubjectPhrases == 2

SubjectPhrases == {"invitation:", "sale", "itinerary", "password reset", "URGENT"}

Subjects ==
    UNION {{s \in [1..n -> SubjectPhrases] : \A i, j \in 1..n : s[i] = s[j] => i = j}
           : n \in 0..MaxSubjectPhrases}

Bodies == SUBSET {".ics", "urgent"}

HeaderSets == {{}, {"List-Unsubscribe"}}

FromAddresses ==
    {[local |-> "calendar", domain |-> "microsoft.com"],
     [local |-> "noreply", domain |-> "calendar.microsoft.com"],
     [local |-> "noreply", domain |-> "company.com"],
     [local |-> "newsletter", domain |-> "company.com"],
     [local |-> "alerts", domain |-> "company.com"],
     [local |-> "bob", domain |-> "mailchimp.com"],
     [local |-> "bob", domain |-> "delta.com"],
     [local |-> "noreply", domain |-> "delta.com"],
     [local |-> "bob", domain |-> "github.com"],
     [local |-> "noreply", domain |-> "github.com"],
     [local |-> "bob", domain |-> "company.com"]}

USER_EMAIL == "user@company.com"

ToRecipientLists ==
    {<<>>, <<USER_EMAIL>>, <<"User@Company.com">>, <<"ann@company.com">>,
     <<USER_EMAIL, "ann@company.com">>,
     <<"ann@company.com", "bea@company.com", "cyd@company.com">>}

CcRecipientLists == {<<>>, <<USER_EMAIL>>}

ClassifierEmails ==
    [from_address : FromAddresses, subject : Subjects, body : Bodies,
     headers : HeaderSets, to_recipients : ToRecipientLists,
     cc_recipients : CcRecipientLists]

NoClassifierEmail ==
    [from_address |-> NoAddress, subject |-> <<>>, body |-> {}, headers |-> {},
     to_recipients |-> <<>>, cc_recipients |-> <<>>]

ClassifierIdle ==
    /\ det_email = NoClassifierEmail
    /\ det_user_email = ""
    /\ det_result = NoResult
    /\ cpc = "idle"

\* ------------------------------------------------------------------------
\* Override classifier (services/classifier_override.py)
\* ------------------------------------------------------------------------
URGENCY_KEYWORDS ==
    <<"urgent", "asap", "time-sensitive", "time sensitive", "immediate attention",
      "action required", "critical", "deadline today", "due today",
      "due immediately", "needs your approval", "please respond by",
      "respond asap", "priority", "high priority", "blocker", "blocking">>

OTHER_CATEGORIES == {6, 7, 8, 9, 11}

is_sole_to_recipient(to_recipients, user_email) ==
    /\ Len(to_recipients) = 1
    /\ lower(to_recipients[1]) = lower(user_email)

\* positions of the keywords of URGENCY_KEYWORDS found in a text
UrgencyMatches(phrases) ==
    {k \in 1..Len(URGENCY_KEYWORDS) : \E ph \in phrases : lower(ph) = URGENCY_KEYWORDS[k]}

\* the first keyword of the list that the text contains, "" for None
contains_urgency_language(phrases) ==
    LET matches == UrgencyMatches(phrases)
    IN  IF matches = {} THEN ""
        ELSE URGENCY_KEYWORDS[CHOOSE k \in matches : \A j \in matches : k <= j]

is_vip_sender(from_address, vip_senders, vip_domains) ==
    /\ from_address # NoAddress
    /\ \/ [local |-> lower(from_address.local),
           domain |-> lower(from_address.domain)] \in vip_senders
       \/ lower(from_address.domain) \in vip_domains

\* the greeting pattern "hi <first_name>," searched with re.IGNORECASE
has_direct_address(body, first_name) ==
    /\ body # {}
    /\ first_name # ""
    /\ \E ph \in body : lower(ph) = "hi user," /\ lower(first_name) = "user"

\* an address string of the model as the [local, domain] record it denotes
AddressOf(str) ==
    CASE str = "user@company.com" -> [local |-> "user", domain |-> "company.com"]
      [] str = "ann@company.com" -> [local |-> "ann", domain |-> "company.com"]
      [] OTHER -> NoAddress

\* db is [present, emails]: the session argument and the rows of the emails
\* table as (conversation_id, from_address)
check_reply_chain_participation(conversation_id, user_email, db) ==
    /\ conversation_id # ""
    /\ user_email # ""
    /\ db.present
    /\ \E row \in db.emails :
          row.conversation_id = conversation_id /\ row.from_address = AddressOf(user_email)

NoOverride == [override |-> FALSE, trigger |-> "", reason |-> <<"", "">>]

Override(trigger, reason, detail) ==
    [override |-> TRUE, trigger |-> trigger, reason |-> <<reason, detail>>]

\* each check returns NoOverride where the source returns None
check_urgency_override(email) ==
    LET matched_keyword == contains_urgency_language(PhrasesOf(email.subject) \cup email.body)
    IN  IF matched_keyword # ""
        THEN Override("urgency_language", "Contains urgency language", matched_keyword)
        ELSE NoOverride

check_vip_override(email, vip_senders, vip_domains) ==
    IF is_vip_sender(email.from_address, vip_senders, vip_domains)
    THEN Override("vip_sender", "Email from VIP sender", email.from_address.local)
    ELSE NoOverride

check_sole_recipient_override(email, current_category, user_email) ==
    IF current_category # 9 THEN NoOverride
    ELSE IF is_sole_to_recipient(email.to_recipients, user_email)
    THEN Override("sole_recipient_mismatch",
                  "Sole To: recipient but classified as FYI - likely needs action", "")
    ELSE NoOverride

check_reply_chain_override(email, user_email, db) ==
    IF check_reply_chain_participation(email.conversation_id, user_email, db)
    THEN Override("reply_chain_participation",
                  "User previously participated in this conversation thread", "")
    ELSE NoOverride

check_direct_address_override(email, first_name) ==
    IF has_direct_address(email.body, first_name)
    THEN Override("direct_address", "Email directly addresses user", "hi user,")
    ELSE NoOverride

\* the same checks without the early return for the other categories
check_override_any_category(email, current_category, user_email, first_name, db, vip_senders, vip_domains) ==
    LET urgency == check_urgency_override(email)
        vip == check_vip_override(email, vip_senders, vip_domains)
        sole == check_sole_recipient_override(email, current_category, user_email)
        chain == check_reply_chain_override(email, user_email, db)
        direct == check_direct_address_override(email, first_name)
    IN  IF urgency.override THEN urgency
        ELSE IF vip.override THEN vip
        ELSE IF sole.override THEN sole
        ELSE IF db.present /\ chain.override THEN chain
        ELSE IF direct.override THEN direct
        ELSE NoOverride

\* the same checks with the VIP trigger tried before the urgency trigger
check_override_vip_first(email, current_category, user_email, first_name, db, vip_senders, vip_domains) ==
    LET urgency == check_urgency_override(email)
        vip == check_vip_override(email, vip_senders, vip_domains)
        sole == check_sole_recipient_override(email, current_category, user_email)
        chain == check_reply_chain_override(email, user_email, db)
        direct == check_direct_address_override(email, first_name)
    IN  IF current_category \notin OTHER_CATEGORIES THEN NoOverride
        ELSE IF vip.override THEN vip
        ELSE IF urgency.override THEN urgency
        ELSE IF sole.override THEN sole
        ELSE IF db.present /\ chain.override THEN chain
        ELSE IF direct.override THEN direct
        ELSE NoOverride

check_override(email, current_category, user_email, first_name, db, vip_senders, vip_domains) ==
    LET urgency == check_urgency_override(email)
        vip == check_vip_override(email, vip_senders, vip_domains)
        sole == check_sole_recipient_override(email, current_category, user_email)
        chain == check_reply_chain_override(email, user_email, db)
        direct == check_direct_address_override(email, first_name)
    IN  IF current_category \notin OTHER_CATEGORIES THEN NoOverride
        ELSE IF urgency.override THEN urgency
        ELSE IF vip.override THEN vip
        ELSE IF sole.override THEN sole
        ELSE IF db.present /\ chain.override THEN chain
        ELSE IF direct.override THEN direct
        ELSE NoOverride

\* ---- the calls the override classifier is run on
BossAddress == [local |-> "boss", domain |-> "company.com"]

ClientAddress == [local |-> "ceo", domain |-> "keyclient.com"]

OverrideEmails ==
    [from_address : {[local |-> "bob", domain |-> "company.com"], BossAddress, ClientAddress},
     subject : {<<>>, <<"URGENT">>},
     body : SUBSET {"blocker", "Hi User,"},
     headers : {{}},
     to_recipients : {<<USER_EMAIL>>, <<"User@Company.com">>, <<USER_EMAIL, "ann@company.com">>},
     cc_recipients : {<<>>},
     conversation_id : {"", "c1"}]

\* the current_category arguments: the category numbers and None
Categories == {None} \cup 1..12

NoDb == [present |-> FALSE, emails |-> {}]

DbArguments ==
    {NoDb} \cup
    {[present |-> TRUE, emails |-> rows] :
        rows \in {{}, {[conversation_id |-> "c1", from_address |-> AddressOf(USER_EMAIL)]},
                      {[conversation_id |-> "c1",
                        from_address |-> AddressOf("ann@company.com")]}}}

NoOverrideEmail ==
    [from_address |-> NoAddress, subject |-> <<>>, body |-> {}, headers |-> {},
     to_recipients |-> <<>>, cc_recipients |-> <<>>, conversation_id |-> ""]

OverrideIdle ==
    /\ ovr_email = NoOverrideEmail
    /\ ovr_category = 1
    /\ ovr_first_name = ""
    /\ ovr_db = NoDb
    /\ VIP_SENDERS = {}
    /\ VIP_DOMAINS = {}
    /\ ovr_result = NoOverride
    /\ opc = "idle"

\* ------------------------------------------------------------------------
\* Pipeline and batch routes (services/pipeline.py, routes/emails.py,
\* services/graph.py)
\*
\* Timestamps are day numbers. A row of the emails table is
\* [content, received_at, status, category_id, confidence, urgency_score,
\* due_date, urgency_records] and its id is its position; confidence is in
\* hundredths and None where the column is NULL; urgency_records are the rows
\* of the urgency_scores table with this email_id, in id order. A content carries, next to
\* what the classifiers read, the date its text names as a deadline (<<>>
\* when it names none) and the state of its text columns.
\* ------------------------------------------------------------------------
MaxEmails == 2
MaxDay == 4
MaxOverrideLog == 2
MaxManualRequests == 1

CUTOFF_DAYS == 45
RECENT_PROCESSING_DAYS == 3

DaysPerTick == RECENT_PROCESSING_DAYS + 1

USER_FIRST_NAME == "User"

UserAddress == [local |-> "user", domain |-> "company.com"]

\* the emails Graph delivers: a Marketing email in conversation c1, and a
\* message of the user in conversation c1, which no rule matches and which
\* makes the reply-chain trigger match the Marketing email
PipelineContents ==
    {[from_address |-> [local |-> "newsletter", domain |-> "company.com"],
      subject |-> <<"sale">>, body |-> {}, headers |-> {},
      to_recipients |-> <<USER_EMAIL, "ann@company.com">>,
      cc_recipients |-> <<>>, conversation_id |-> "c1",
      deadline |-> <<>>, text |-> AllText],
     [from_address |-> UserAddress, subject |-> <<>>, body |-> {}, headers |-> {},
      to_recipients |-> <<"ann@company.com">>, cc_recipients |-> <<>>,
      conversation_id |-> "c1",
      deadline |-> <<>>, text |-> AllText]}

\* no row in the urgency_scores table
NoUrgencyRecord == [urgency_score |-> None]

\* the row a query of urgency_scores by email_id answers with .first(), and
\* the row a join with emails gives
urgency_record_of(row) ==
    IF row.urgency_records = <<>> THEN NoUrgencyRecord ELSE row.urgency_records[1]

\* age in days of a fetched email at the moment it is stored
FetchedAges == {0, CUTOFF_DAYS + 1}

\* the inbox: the Marketing email fresh or past the cutoff, the user's message
\* fresh
PipelineInbox ==
    {msg \in [content : PipelineContents, age : FetchedAges] :
        msg.age = 0 \/ msg.content.from_address # UserAddress}

\* store_emails: a new row with status "unprocessed"
store_email(rows, content, received_at) ==
    Append(rows, [content |-> content, received_at |-> received_at,
                  status |-> "unprocessed", category_id |-> None, confidence |-> None,
                  urgency_score |-> None, due_date |-> None,
                  urgency_records |-> <<>>])

\* the db argument of check_override as the reply-chain query sees it
db_session(rows) ==
    [present |-> TRUE,
     emails |-> {[conversation_id |-> rows[i].content.conversation_id,
                  from_address |-> rows[i].content.from_address] : i \in 1..Len(rows)}]

recently_processed_ids(log, t) ==
    {log[i].email_id : i \in {j \in 1..Len(log) : log[j].created_at >= t - RECENT_PROCESSING_DAYS}}

\* the query of phase 2, phase 4, classify-deterministic and classify-ai
unprocessed_emails(rows, log, t) ==
    {id \in 1..Len(rows) :
        /\ rows[id].status = "unprocessed"
        /\ rows[id].received_at >= t - CUTOFF_DAYS
        /\ id \notin recently_processed_ids(log, t)}

\* the query of check-overrides
classified_other_emails(rows) ==
    {id \in 1..Len(rows) :
        rows[id].status = "classified" /\ rows[id].category_id \in {6, 7, 8, 9, 11}}

\* concatenation of entries[k], ..., entries[n]
RECURSIVE ConcatFrom(_, _, _)
ConcatFrom(entries, k, n) ==
    IF k > n THEN <<>> ELSE entries[k] \o ConcatFrom(entries, k + 1, n)

\* the override result on a classifier result: check_override is called only
\* when the classifier returned a result
override_on(row, result, db) ==
    IF result = NoResult THEN NoOverride
    ELSE check_override(row.content, result.category_id, USER_EMAIL, USER_FIRST_NAME, db, VIP_SENDERS, VIP_DOMAINS)

outcome_of(row, result, db) ==
    [result |-> result, override_result |-> override_on(row, result, db)]

\* what the deterministic step decides for one row: the classifier result and
\* the override result on it
det_outcome(row, db) ==
    outcome_of(row, classify_deterministic(row.content, USER_EMAIL), db)

OverrideLogEntry(id, original_category, override_result, t) ==
    [email_id |-> id, original_category |-> original_category,
     trigger_type |-> override_result.trigger, reason |-> override_result.reason,
     timestamp |-> t]

ClassificationLogEntry(id, category_id, rule, classifier_type, confidence, t) ==
    [email_id |-> id, category_id |-> category_id, rule |-> rule,
     classifier_type |-> classifier_type, confidence |-> confidence, created_at |-> t]

\* the row after an override in phase 2 / classify-deterministic, where the
\* row is left classified
revert_for_ai_kept_classified(row) ==
    [row EXCEPT !.status = "classified"]

\* the row after an override in phase 2 / classify-deterministic
revert_for_ai(row) ==
    [row EXCEPT !.category_id = None, !.status = "unprocessed"]

\* the row after an override in check-overrides, which also clears confidence
reset_for_ai(row) ==
    [row EXCEPT !.category_id = None, !.confidence = None, !.status = "unprocessed"]

keep_classification(row, result) ==
    [row EXCEPT !.category_id = result.category_id, !.confidence = result.confidence,
                !.status = "classified"]

\* rows of the selection the classifier has a result for, and those of them
\* the override reverts
classified_ids(sel, out) == {id \in sel : out[id].result # NoResult}

overridden_ids(sel, out) ==
    {id \in sel : out[id].result # NoResult /\ out[id].override_result.override}

\* the effect of the loop, given the selection and the outcome for each row
pass_effect(rows, log, olog, t, sel, out, hit, ovr) ==
    [emails |->
        [id \in 1..Len(rows) |->
            IF id \in ovr THEN revert_for_ai(rows[id])
            ELSE IF id \in hit THEN keep_classification(rows[id], out[id].result)
            ELSE rows[id]],
     classification_log |->
        log \o ConcatFrom(
            [id \in 1..Len(rows) |->
                IF id \in hit \ ovr
                THEN <<ClassificationLogEntry(id, out[id].result.category_id,
                          out[id].result.rule, "deterministic",
                          out[id].result.confidence, t)>>
                ELSE <<>>], 1, Len(rows)),
     override_log |->
        olog \o ConcatFrom(
            [id \in 1..Len(rows) |->
                IF id \in ovr
                THEN <<OverrideLogEntry(id, out[id].result.category_id,
                                        out[id].override_result, t)>>
                ELSE <<>>], 1, Len(rows)),
     total |-> Cardinality(sel),
     classified |-> Cardinality(hit \ ovr),
     overridden |-> Cardinality(ovr)]

pass_over(rows, log, olog, t, sel, out) ==
    pass_effect(rows, log, olog, t, sel, out, classified_ids(sel, out), overridden_ids(sel, out))

\* the loop of phase 2 and of classify-deterministic over the selected rows,
\* up to db.commit(): [emails, classification_log, override_log, classified,
\* overridden]
deterministic_pass(rows, log, olog, t) ==
    pass_over(rows, log, olog, t, unprocessed_emails(rows, log, t),
              [id \in 1..Len(rows) |-> det_outcome(rows[id], db_session(rows))])

\* the loop of check-overrides over the classified Other rows
check_overrides_pass(rows, olog, t) ==
    LET sel == classified_other_emails(rows)
        db == db_session(rows)
        res == [id \in 1..Len(rows) |->
                   check_override(rows[id].content, rows[id].category_id, USER_EMAIL,
                                  USER_FIRST_NAME, db, VIP_SENDERS, VIP_DOMAINS)]
        ovr == {id \in sel : res[id].override}
    IN  [emails |->
            [id \in 1..Len(rows) |->
                IF id \in ovr THEN reset_for_ai(rows[id]) ELSE rows[id]],
         override_log |->
            olog \o ConcatFrom(
                [id \in 1..Len(rows) |->
                    IF id \in ovr
                    THEN <<OverrideLogEntry(id, rows[id].category_id, res[id], t)>>
                    ELSE <<>>], 1, Len(rows)),
         total |-> Cardinality(sel),
         overridden |-> Cardinality(ovr)]

\* classify_with_ai(email) takes one parameter; a call is accepted when the
\* arguments it passes are among the parameters
classify_with_ai_accepts(arguments) == arguments \subseteq {"email"}

\* categories the AI classifier answers with (1 to 5 in the source)
AiCategories == {2, 4}

ai_classified(row, category_id) ==
    [row EXCEPT !.category_id = category_id, !.confidence = 80, !.status = "classified"]

\* ids of a set in ascending order, as the list a query returns
RECURSIVE IdsFrom(_, _, _)
IdsFrom(ids, k, n) ==
    IF k > n THEN <<>>
    ELSE (IF k \in ids THEN <<k>> ELSE <<>>) \o IdsFrom(ids, k + 1, n)

\* ---- scoring and assignment stages (pipeline phases 5 and 6, POST /score)
user_domain == UserAddress.domain

\* what extract_sender_seniority and extract_client_external see in from_address
sender_kind(from_address) ==
    IF is_vip_sender(from_address, VIP_SENDERS, VIP_DOMAINS)
    THEN (IF from_address.domain = user_domain THEN "vip_internal" ELSE "vip_external")
    ELSE IF from_address.domain = user_domain THEN "internal" ELSE "external"

\* the count query of extract_thread_velocity: rows of the conversation
\* received in the last 24 hours
thread_count_of(rows, row, t) ==
    Cardinality({i \in 1..Len(rows) :
        /\ rows[i].content.conversation_id = row.content.conversation_id
        /\ rows[i].received_at >= t - 1})

\* the email dict of a row as the extractors read it; category_id is None
\* where the dict has no such key, and thread_count is 0 where score_email is
\* called without a db
scoring_dict(row, thread_count, category_id, t) ==
    [deadline |-> IF row.content.deadline = <<>> THEN <<>>
                  ELSE <<row.content.deadline[1] - t>>,
     sender |-> sender_kind(row.content.from_address),
     importance |-> "normal",
     language |-> "none",
     thread_count |-> thread_count,
     received |-> [kind |-> "ok", hours |-> 24 * (t - row.received_at)],
     category_id |-> category_id,
     text |-> row.content.text]

\* _email_to_dict of pipeline.py, scored with db=db
email_to_dict(rows, row, t) == scoring_dict(row, thread_count_of(rows, row, t), None, t)

\* the dict POST /score builds, scored with db=None
score_route_dict(row, t) == scoring_dict(row, 0, row.category_id, t)

\* mutant: the query without the category filter
work_emails_any_category(rows) == {id \in 1..Len(rows) : rows[id].status = "classified"}

\* the query of phase 5, phase 6 and /score
work_emails(rows) ==
    {id \in 1..Len(rows) : rows[id].status = "classified" /\ rows[id].category_id \in 1..5}

\* mutant: a new urgency_scores row is added on every pass
store_score_always_adds(row, result) ==
    [row EXCEPT !.urgency_score = result.urgency_score, !.urgency_records = Append(@, result)]

\* email.urgency_score = score, then the row of urgency_scores is updated if
\* the query finds one and added otherwise
store_score(row, result) ==
    [row EXCEPT !.urgency_score = result.urgency_score,
                !.urgency_records = IF @ = <<>> THEN <<result>> ELSE [@ EXCEPT ![1] = result]]

\* one round of the scoring loop: try score_email and store the result;
\* except Exception: continue
score_row(row, e) ==
    IF score_email_raises(e) THEN row ELSE store_score(row, score_email(e))

\* the loop of phase 5 up to db.commit()
phase5_scoring(rows, t) ==
    [id \in 1..Len(rows) |->
        IF id \in work_emails(rows) THEN score_row(rows[id], email_to_dict(rows, rows[id], t))
        ELSE rows[id]]

\* the loop of POST /score up to db.commit()
score_work_emails(rows, t) ==
    [id \in 1..Len(rows) |->
        IF id \in work_emails(rows) THEN score_row(rows[id], score_route_dict(rows[id], t))
        ELSE rows[id]]

PIPELINE_SETTINGS == [task_limit |-> 20, urgency_floor |-> 90, time_pressure_threshold |-> 15]

\* the join query of phase 6, ordered by urgency_score descending
scored_work_ids(rows) ==
    {id \in work_emails(rows) :
        rows[id].urgency_score # None /\ urgency_record_of(rows[id]).urgency_score # None}

batch_item(rows, id) ==
    [email_id |-> id,
     urgency_score |-> urgency_record_of(rows[id]).urgency_score,
     floor_override |-> urgency_record_of(rows[id]).floor_override,
     force_today |-> urgency_record_of(rows[id]).force_today]

scored_emails_db(rows, ids) == SortByScoreDesc([i \in 1..Len(ids) |-> batch_item(rows, ids[i])])

due_date_in(assigned, id) == assigned[CHOOSE i \in 1..Len(assigned) : assigned[i].email_id = id].due_date

write_due_dates(rows, assigned) ==
    [id \in 1..Len(rows) |->
        IF \E i \in 1..Len(assigned) : assigned[i].email_id = id
        THEN [rows[id] EXCEPT !.due_date = due_date_in(assigned, id)]
        ELSE rows[id]]

\* phase 6 up to db.commit()
phase6_assignment(rows, t) ==
    write_due_dates(rows,
        assign_due_dates(scored_emails_db(rows, IdsFrom(scored_work_ids(rows), 1, Len(rows))),
                         PIPELINE_SETTINGS, t))

\* ---- rows with a NULL text column
\* check_calendar, the first rule of classify_deterministic, calls
\* email.get("body", "").lower(): a body of None raises AttributeError
classify_deterministic_raises(email) == email.text["body"] = "null"

\* the loop of phase 2 and of classify-deterministic has no handler: the
\* first selected row that raises ends the handler before db.commit()
deterministic_pass_raises(rows, log, t) ==
    \E id \in unprocessed_emails(rows, log, t) : classify_deterministic_raises(rows[id].content)

\* ---- manual routes
ManualCategories == {4, 6}

WorkCategories == 1..5

OtherCategories == {6, 7, 8, 9, 11}

\* POST /{email_id}/reclassify
reclassify_post(row, category_id) ==
    [row EXCEPT !.category_id = category_id, !.confidence = 100, !.status = "classified"]

\* PUT /{email_id}/reclassify: a Work category sets the status and the due
\* date the assigner answers with; an Other category clears the urgency data
\* and deletes the urgency_scores row
reclassify_put(row, category_id, due_date) ==
    IF category_id \in WorkCategories
    THEN [row EXCEPT !.category_id = category_id, !.status = "classified", !.due_date = due_date]
    ELSE [row EXCEPT !.category_id = category_id, !.urgency_score = None, !.due_date = None,
                     !.urgency_records = IF @ = <<>> THEN <<>> ELSE Tail(@)]

\* PUT /{email_id}/approve with the optional due_date and category_id of the
\* request (None when the request has none)
approve(row, due_date, category_id) ==
    [row EXCEPT !.status = "approved",
                !.due_date = IF due_date # None THEN due_date ELSE @,
                !.category_id = IF category_id # None THEN category_id ELSE @]

NoResponse == [classified |-> 0, failed |-> 0]

PipelineIdle ==
    /\ graph_inbox = {}
    /\ manual_requests = 0
    /\ emails = <<>>
    /\ classification_log = <<>>
    /\ override_log = <<>>
    /\ now = 0
    /\ ppc = "off"
    /\ remaining_unprocessed = <<>>
    /\ ai_batch_response = NoResponse
    /\ other_ppc = "off"
    /\ other_remaining_unprocessed = <<>>

\* ------------------------------------------------------------------------
\* Specification of the assignment service: a caller builds a batch of scored
\* items and calls assign_due_dates once.
\* ------------------------------------------------------------------------
InitAssign ==
    /\ scored_emails = <<>>
    /\ settings = [task_limit |-> 0, urgency_floor |-> DEFAULT_URGENCY_FLOOR,
                   time_pressure_threshold |-> DEFAULT_TIME_PRESSURE_THRESHOLD]
    /\ today = 0
    /\ assignments = <<>>
    /\ apc = "input"
    /\ summary = NoSummary
    /\ ScoringIdle
    /\ DeadlineIdle
    /\ ClassifierIdle
    /\ OverrideIdle
    /\ PipelineIdle

AddScored ==
    /\ apc = "input"
    /\ Len(scored_emails) < MaxBatch
    /\ \E e \in ScoredEmail :
          scored_emails' = Append(scored_emails,
              [email_id |-> Len(scored_emails) + 1,
               urgency_score |-> e.urgency_score,
               floor_override |-> e.floor_override,
               force_today |-> e.force_today])
    /\ UNCHANGED <<settings, today, assignments, apc, summary>>
    /\ UNCHANGED <<svars, dvars, cvars, ovars, gvars, pvars, rvars>>

Assign ==
    /\ apc = "input"
    /\ \E limit \in 0..MaxTaskLimit, t \in 0..6 :
          /\ settings' = [settings EXCEPT !.task_limit = limit]
          /\ today' = t
          /\ assignments' = assign_due_dates(scored_emails, settings', t)
    /\ apc' = "assigned"
    /\ UNCHANGED <<scored_emails, summary>>
    /\ UNCHANGED <<svars, dvars, cvars, ovars, gvars, pvars, rvars>>

\* the caller hands the returned list to get_assignment_summary
Summarize ==
    /\ apc = "assigned"
    /\ summary = NoSummary
    /\ summary' = get_assignment_summary(assignments)
    /\ UNCHANGED <<scored_emails, settings, today, assignments, apc>>
    /\ UNCHANGED <<svars, dvars, cvars, ovars, gvars, pvars, rvars>>

NextAssign == AddScored \/ Assign \/ Summarize

SpecAssign == InitAssign /\ [][NextAssign]_vars

\* ------------------------------------------------------------------------
\* Specification of the scoring engine: an email dict is handed to
\* score_email, which runs the eight extractors and the two adjustment stages.
\* ------------------------------------------------------------------------
AssignIdle ==
    /\ scored_emails = <<>>
    /\ settings = [task_limit |-> 0, urgency_floor |-> DEFAULT_URGENCY_FLOOR,
                   time_pressure_threshold |-> DEFAULT_TIME_PRESSURE_THRESHOLD]
    /\ today = 0
    /\ assignments = <<>>
    /\ apc = "idle"
    /\ summary = NoSummary

InitScore ==
    /\ email_dict \in ScoringEmails
    /\ score_result = score_email_run(NoEmail).result
    /\ stale_stage = score_email_run(NoEmail).stale
    /\ floor_stage = score_email_run(NoEmail).floor
    /\ spc = "input"
    /\ DeadlineIdle
    /\ AssignIdle
    /\ ClassifierIdle
    /\ OverrideIdle
    /\ PipelineIdle

ScoreEmail ==
    /\ spc = "input"
    /\ IF score_email_raises(email_dict)
       THEN /\ spc' = "raised"
            /\ UNCHANGED <<score_result, stale_stage, floor_stage>>
       ELSE /\ score_result' = score_email_run(email_dict).result
            /\ stale_stage' = score_email_run(email_dict).stale
            /\ floor_stage' = score_email_run(email_dict).floor
            /\ spc' = "scored"
    /\ UNCHANGED email_dict
    /\ UNCHANGED <<avars, dvars, cvars, ovars, gvars, pvars, rvars>>

NextScore == ScoreEmail

SpecScore == InitScore /\ [][NextScore]_vars

\* ------------------------------------------------------------------------
\* Specification of the scoring engine on incomplete input: the dict handed
\* to score_email has its text fields missing, None, empty or filled, and its
\* received_at missing, unparseable or parsed. A text with no filled field
\* holds no deadline and no urgency keyword.
\* ------------------------------------------------------------------------
NoTextIn(e) == \A f \in TextFields : e.text[f] # "text"

IncompleteReceived ==
    {[kind |-> "missing", hours |-> 0], [kind |-> "unparseable", hours |-> 0],
     [kind |-> "ok", hours |-> 18], [kind |-> "ok", hours |-> 24 * MaxStaleDays]}

IncompleteEmails ==
    {e \in [deadline : {<<>>, <<0 - MaxOverdueDays>>, <<MaxDeadlineDays>>},
            sender : {"internal"},
            importance : {"normal"},
            language : {"strong", "none"},
            thread_count : {0},
            received : IncompleteReceived,
            category_id : {2, 4},
            text : [TextFields -> TextStates]] :
        NoTextIn(e) => e.deadline = <<>> /\ e.language = "none"}

InitScoreIncomplete ==
    /\ email_dict \in IncompleteEmails
    /\ score_result = score_email_run(NoEmail).result
    /\ stale_stage = score_email_run(NoEmail).stale
    /\ floor_stage = score_email_run(NoEmail).floor
    /\ spc = "input"
    /\ DeadlineIdle
    /\ AssignIdle
    /\ ClassifierIdle
    /\ OverrideIdle
    /\ PipelineIdle

SpecScoreIncomplete == InitScoreIncomplete /\ [][NextScore]_vars

\* ------------------------------------------------------------------------
\* Specification of the day-of-week deadline resolution: a text holding one
\* day-of-week term is handed to _find_deadline_in_text on some day.
\* ------------------------------------------------------------------------
InitDeadline ==
    /\ deadline_text \in DayTerms
    /\ deadline_today \in 0..6
    /\ deadline_date = None
    /\ dpc = "input"
    /\ AssignIdle
    /\ ScoringIdle
    /\ ClassifierIdle
    /\ OverrideIdle
    /\ PipelineIdle

FindDeadline ==
    /\ dpc = "input"
    /\ deadline_date' = find_deadline_in_text(deadline_text, deadline_today)
    /\ dpc' = "found"
    /\ UNCHANGED <<deadline_text, deadline_today>>
    /\ UNCHANGED <<avars, svars, cvars, ovars, gvars, pvars, rvars>>

NextDeadline == FindDeadline

SpecDeadline == InitDeadline /\ [][NextDeadline]_vars


\* ------------------------------------------------------------------------
\* Specification of the deterministic classifier: an email dict and a user
\* address (or none) are handed to classify_deterministic.
\* ------------------------------------------------------------------------
InitClassify ==
    /\ det_email \in ClassifierEmails
    /\ det_user_email \in {"", USER_EMAIL}
    /\ det_result = NoResult
    /\ cpc = "input"
    /\ AssignIdle
    /\ ScoringIdle
    /\ DeadlineIdle
    /\ OverrideIdle
    /\ PipelineIdle

ClassifyDeterministic ==
    /\ cpc = "input"
    /\ det_result' = classify_deterministic(det_email, det_user_email)
    /\ cpc' = "classified"
    /\ UNCHANGED <<det_email, det_user_email>>
    /\ UNCHANGED <<avars, svars, dvars, ovars, gvars, pvars, rvars>>

NextClassify == ClassifyDeterministic

SpecClassify == InitClassify /\ [][NextClassify]_vars

\* ------------------------------------------------------------------------
\* Specification of the override classifier: the VIP lists are configured
\* with add_vip_sender / add_vip_domain and check_override is called on an
\* email with the category it was given. The user address is USER_EMAIL.
\* ------------------------------------------------------------------------
InitOverride ==
    /\ ovr_email \in OverrideEmails
    /\ ovr_category \in Categories
    /\ ovr_first_name \in {"", "User"}
    /\ ovr_db \in DbArguments
    /\ VIP_SENDERS = {}
    /\ VIP_DOMAINS = {}
    /\ ovr_result = NoOverride
    /\ opc = "input"
    /\ AssignIdle
    /\ ScoringIdle
    /\ DeadlineIdle
    /\ ClassifierIdle
    /\ PipelineIdle

add_vip_sender ==
    /\ opc = "input"
    /\ BossAddress \notin VIP_SENDERS
    /\ VIP_SENDERS' = VIP_SENDERS \cup {BossAddress}
    /\ UNCHANGED <<ovr_email, ovr_category, ovr_first_name, ovr_db, VIP_DOMAINS,
                   ovr_result, opc>>
    /\ UNCHANGED <<avars, svars, dvars, cvars, gvars, pvars, rvars>>

add_vip_domain ==
    /\ opc = "input"
    /\ ClientAddress.domain \notin VIP_DOMAINS
    /\ VIP_DOMAINS' = VIP_DOMAINS \cup {ClientAddress.domain}
    /\ UNCHANGED <<ovr_email, ovr_category, ovr_first_name, ovr_db, VIP_SENDERS,
                   ovr_result, opc>>
    /\ UNCHANGED <<avars, svars, dvars, cvars, gvars, pvars, rvars>>

CheckOverride ==
    /\ opc = "input"
    /\ ovr_result' = check_override(ovr_email, ovr_category, USER_EMAIL, ovr_first_name,
                                    ovr_db, VIP_SENDERS, VIP_DOMAINS)
    /\ opc' = "checked"
    /\ UNCHANGED <<ovr_email, ovr_category, ovr_first_name, ovr_db, VIP_SENDERS, VIP_DOMAINS>>
    /\ UNCHANGED <<avars, svars, dvars, cvars, gvars, pvars, rvars>>

NextOverride == add_vip_sender \/ add_vip_domain \/ CheckOverride

SpecOverride == InitOverride /\ [][NextOverride]_vars

\* ------------------------------------------------------------------------
\* Specification of the pipeline and the batch routes. The routes are async
\* handlers on one event loop: a handler runs undisturbed up to its next
\* await. run_full_pipeline awaits the Graph fetch, then stores the new emails
\* and runs phases 2 and 3 and the query of phase 4 without an await; phase 4
\* awaits once per row; phases 5 to 7 write urgency scores, due dates and
\* To-Do tasks only. The user is logged in with address USER_EMAIL.
\* ------------------------------------------------------------------------
\* no second execution of the pipeline is started
OtherRunIdle ==
    /\ other_ppc = "idle"
    /\ other_remaining_unprocessed = <<>>

InitPipeline ==
    /\ graph_inbox = PipelineInbox
    /\ manual_requests = 0
    /\ emails = <<>>
    /\ classification_log = <<>>
    /\ override_log = <<>>
    /\ now = 0
    /\ ppc = "idle"
    /\ remaining_unprocessed = <<>>
    /\ ai_batch_response = NoResponse
    /\ OtherRunIdle
    /\ AssignIdle
    /\ ScoringIdle
    /\ DeadlineIdle
    /\ ClassifierIdle
    /\ OverrideIdle

\* POST /fetch: store_emails adds the new messages
FetchEmails ==
    /\ Len(emails) < MaxEmails
    /\ \E msg \in graph_inbox :
          emails' = store_email(emails, msg.content, now - msg.age)
    /\ UNCHANGED <<classification_log, override_log, now, ppc, remaining_unprocessed,
                   ai_batch_response>>
    /\ UNCHANGED <<avars, svars, dvars, cvars, ovars, gvars, rvars>>

\* run_full_pipeline from the arrival of the Graph response to the first AI
\* call: phase 1 store (which commits), phases 2 and 3, the query of phase 4.
\* An exception in the loop of phase 2 leaves run_full_pipeline: the route
\* answers 500 and the session is closed without a commit ("failed").
RunPipelinePhases1To3 ==
    /\ ppc \in {"idle", "failed"}
    /\ \E fetched \in {<<>>} \cup {<<msg>> : msg \in graph_inbox} :
          LET stored == IF fetched = <<>> THEN emails
                        ELSE store_email(emails, fetched[1].content, now - fetched[1].age)
              pass == deterministic_pass(stored, classification_log, override_log, now)
          IN  /\ Len(stored) <= MaxEmails
              /\ IF deterministic_pass_raises(stored, classification_log, now)
                 THEN /\ emails' = stored
                      /\ UNCHANGED <<classification_log, override_log, remaining_unprocessed>>
                      /\ ppc' = "failed"
                 ELSE /\ Len(pass.override_log) <= MaxOverrideLog
                      /\ emails' = pass.emails
                      /\ classification_log' = pass.classification_log
                      /\ override_log' = pass.override_log
                      /\ remaining_unprocessed' =
                            IdsFrom(unprocessed_emails(pass.emails, pass.classification_log, now),
                                    1, Len(stored))
                      /\ ppc' = "phase4"
    /\ UNCHANGED <<now, ai_batch_response>>
    /\ UNCHANGED <<avars, svars, dvars, cvars, ovars, gvars, rvars>>

\* one round of the phase 4 loop: classify_with_ai on the next row, commit
Phase4Classify ==
    /\ ppc = "phase4"
    /\ remaining_unprocessed # <<>>
    /\ \E category_id \in AiCategories :
          LET id == Head(remaining_unprocessed)
          IN  /\ emails' = [emails EXCEPT ![id] = ai_classified(@, category_id)]
              /\ classification_log' =
                    Append(classification_log,
                           ClassificationLogEntry(id, category_id, "reasoning", "ai", 80, now))
    /\ remaining_unprocessed' = Tail(remaining_unprocessed)
    /\ UNCHANGED <<override_log, now, ppc, ai_batch_response>>
    /\ UNCHANGED <<avars, svars, dvars, cvars, ovars, gvars, rvars>>

\* the end of the phase 4 loop and phases 5 to 7: phase 5 scores the Work
\* rows, phase 6 assigns their due dates, phase 7 writes To-Do tasks only
PipelineFinish ==
    /\ ppc = "phase4"
    /\ remaining_unprocessed = <<>>
    /\ emails' = phase6_assignment(phase5_scoring(emails, now), now)
    /\ ppc' = "idle"
    /\ UNCHANGED <<classification_log, override_log, now, remaining_unprocessed,
                   ai_batch_response>>
    /\ UNCHANGED <<avars, svars, dvars, cvars, ovars, gvars, rvars>>

\* POST /classify-deterministic
ClassifyDeterministicBatch ==
    /\ LET pass == deterministic_pass(emails, classification_log, override_log, now)
       IN  IF deterministic_pass_raises(emails, classification_log, now)
           THEN UNCHANGED <<emails, classification_log, override_log>>
           ELSE /\ Len(pass.override_log) <= MaxOverrideLog
                /\ emails' = pass.emails
                /\ classification_log' = pass.classification_log
                /\ override_log' = pass.override_log
    /\ UNCHANGED <<now, ppc, remaining_unprocessed, ai_batch_response>>
    /\ UNCHANGED <<avars, svars, dvars, cvars, ovars, gvars, rvars>>

\* POST /check-overrides
CheckOverridesBatch ==
    /\ LET pass == check_overrides_pass(emails, override_log, now)
       IN  /\ Len(pass.override_log) <= MaxOverrideLog
           /\ emails' = pass.emails
           /\ override_log' = pass.override_log
    /\ UNCHANGED <<classification_log, now, ppc, remaining_unprocessed, ai_batch_response>>
    /\ UNCHANGED <<avars, svars, dvars, cvars, ovars, gvars, rvars>>

\* POST /classify-ai: every row is tried with classify_with_ai(email_dict,
\* db_session=db); a rejected call raises inside the try, the row is counted
\* as failed and the session rolled back
ClassifyAiBatch ==
    /\ LET sel == unprocessed_emails(emails, classification_log, now)
       IN  IF classify_with_ai_accepts({"email", "db_session"})
           THEN \E category_id \in AiCategories :
                  /\ emails' = [id \in 1..Len(emails) |->
                                   IF id \in sel THEN ai_classified(emails[id], category_id)
                                   ELSE emails[id]]
                  /\ classification_log' =
                        classification_log \o ConcatFrom(
                            [id \in 1..Len(emails) |->
                                IF id \in sel
                                THEN <<ClassificationLogEntry(id, category_id, "reasoning",
                                                              "ai", 80, now)>>
                                ELSE <<>>], 1, Len(emails))
                  /\ ai_batch_response' = [classified |-> Cardinality(sel), failed |-> 0]
           ELSE /\ UNCHANGED <<emails, classification_log>>
                /\ ai_batch_response' = [classified |-> 0, failed |-> Cardinality(sel)]
    /\ UNCHANGED <<override_log, now, ppc, remaining_unprocessed>>
    /\ UNCHANGED <<avars, svars, dvars, cvars, ovars, gvars, rvars>>

\* time passes: long enough for the recent-processing window to close, not
\* long enough for a fresh email to reach the 45-day cutoff
Tick ==
    /\ now + DaysPerTick <= MaxDay
    /\ now' = now + DaysPerTick
    /\ UNCHANGED <<emails, classification_log, override_log, ppc, remaining_unprocessed,
                   ai_batch_response>>
    /\ UNCHANGED <<avars, svars, dvars, cvars, ovars, gvars, rvars>>

NextPipeline ==
    \/ FetchEmails
    \/ RunPipelinePhases1To3
    \/ Phase4Classify
    \/ PipelineFinish
    \/ ClassifyDeterministicBatch
    \/ CheckOverridesBatch
    \/ ClassifyAiBatch
    \/ Tick

SpecPipeline == InitPipeline /\ [][NextPipeline]_vars

\* ------------------------------------------------------------------------
\* Specification of the triage workflow: the pipeline, the scoring and
\* deterministic batch routes and the manual routes, on an inbox that also
\* holds a follow-up with a past deadline and a Marketing email whose body
\* column is NULL.
\* ------------------------------------------------------------------------
FollowUpDeadline == 0 - 2

MarketingEmail ==
    [from_address |-> [local |-> "newsletter", domain |-> "company.com"],
     subject |-> <<"sale">>, body |-> {}, headers |-> {},
     to_recipients |-> <<USER_EMAIL, "ann@company.com">>,
     cc_recipients |-> <<>>, conversation_id |-> "c1",
     deadline |-> <<>>, text |-> AllText]

TriageContents ==
    PipelineContents \cup
    {[MarketingEmail EXCEPT !.text = [AllText EXCEPT !["body"] = "null"]],
     [from_address |-> [local |-> "ann", domain |-> "company.com"],
      subject |-> <<>>, body |-> {}, headers |-> {},
      to_recipients |-> <<USER_EMAIL>>, cc_recipients |-> <<>>,
      conversation_id |-> "c2",
      deadline |-> <<FollowUpDeadline>>, text |-> AllText]}

TriageInbox == [content : TriageContents, age : {0}]

InitTriage ==
    /\ graph_inbox = TriageInbox
    /\ manual_requests = 0
    /\ emails = <<>>
    /\ classification_log = <<>>
    /\ override_log = <<>>
    /\ now = 0
    /\ ppc = "idle"
    /\ remaining_unprocessed = <<>>
    /\ ai_batch_response = NoResponse
    /\ OtherRunIdle
    /\ AssignIdle
    /\ ScoringIdle
    /\ DeadlineIdle
    /\ ClassifierIdle
    /\ OverrideIdle

\* one round of the phase 4 loop in which classify_with_ai raises: rollback,
\* continue with the next row
Phase4ClassifyFails ==
    /\ ppc = "phase4"
    /\ remaining_unprocessed # <<>>
    /\ remaining_unprocessed' = Tail(remaining_unprocessed)
    /\ UNCHANGED <<emails, classification_log, override_log, now, ppc, ai_batch_response>>
    /\ UNCHANGED <<avars, svars, dvars, cvars, ovars, gvars, rvars>>

\* POST /score
ScoreBatch ==
    /\ emails' = score_work_emails(emails, now)
    /\ UNCHANGED <<classification_log, override_log, now, ppc, remaining_unprocessed,
                   ai_batch_response>>
    /\ UNCHANGED <<avars, svars, dvars, cvars, ovars, gvars, rvars>>

\* POST /{email_id}/reclassify
ReclassifyPost ==
    /\ manual_requests < MaxManualRequests
    /\ manual_requests' = manual_requests + 1
    /\ \E id \in 1..Len(emails), category_id \in ManualCategories :
          /\ emails' = [emails EXCEPT ![id] = reclassify_post(@, category_id)]
          /\ classification_log' =
                Append(classification_log,
                       ClassificationLogEntry(id, category_id,
                           <<"Manual reclassification", emails[id].category_id, category_id>>,
                           "manual", 100, now))
    /\ UNCHANGED <<override_log, now, ppc, remaining_unprocessed, ai_batch_response>>
    /\ UNCHANGED <<avars, svars, dvars, cvars, ovars, graph_inbox, rvars>>

\* PUT /{email_id}/reclassify
ReclassifyPut ==
    /\ manual_requests < MaxManualRequests
    /\ manual_requests' = manual_requests + 1
    /\ \E id \in 1..Len(emails), category_id \in ManualCategories, due_date \in {now + 1} :
          /\ emails' = [emails EXCEPT ![id] = reclassify_put(@, category_id, due_date)]
          /\ classification_log' =
                Append(classification_log,
                       ClassificationLogEntry(id, category_id, "manual_reclassification",
                                              "manual", 100, now))
    /\ UNCHANGED <<override_log, now, ppc, remaining_unprocessed, ai_batch_response>>
    /\ UNCHANGED <<avars, svars, dvars, cvars, ovars, graph_inbox, rvars>>

\* the bodies of the approve requests: empty, or with a due date, or with a
\* category
ApproveRequests ==
    {request \in [due_date : {None, now + 1}, category_id : {None} \cup ManualCategories] :
        request.due_date = None \/ request.category_id = None}

\* PUT /{email_id}/approve
ApproveEmail ==
    /\ manual_requests < MaxManualRequests
    /\ manual_requests' = manual_requests + 1
    /\ \E id \in 1..Len(emails), request \in ApproveRequests :
          emails' = [emails EXCEPT ![id] = approve(@, request.due_date, request.category_id)]
    /\ UNCHANGED <<classification_log, override_log, now, ppc, remaining_unprocessed,
                   ai_batch_response>>
    /\ UNCHANGED <<avars, svars, dvars, cvars, ovars, graph_inbox, rvars>>

NextTriage ==
    \/ FetchEmails
    \/ RunPipelinePhases1To3
    \/ Phase4Classify
    \/ Phase4ClassifyFails
    \/ PipelineFinish
    \/ ClassifyDeterministicBatch
    \/ CheckOverridesBatch
    \/ ScoreBatch
    \/ ReclassifyPost
    \/ ReclassifyPut
    \/ ApproveEmail

SpecTriage == InitTriage /\ [][NextTriage]_vars

\* ------------------------------------------------------------------------
\* Specification of repeated scoring: pipeline runs and POST /score batches
\* on the same rows, days apart.
\* ------------------------------------------------------------------------
NextRescore ==
    \/ FetchEmails
    \/ RunPipelinePhases1To3
    \/ Phase4Classify
    \/ PipelineFinish
    \/ ScoreBatch
    \/ Tick

SpecRescore == InitPipeline /\ [][NextRescore]_vars

\* ------------------------------------------------------------------------
\* Specification of two overlapping executions of run_full_pipeline. POST
\* /pipeline/run is an async route without a lock: while one execution waits
\* for classify_with_ai or sleeps between two rows of phase 4, the event loop
\* serves a second request, which runs its phases 1 to 3 and its own query of
\* phase 4 on the same tables, each execution with its own session.
\* ------------------------------------------------------------------------
\* the second execution from the Graph response to its first AI call
OtherRunPhases1To3 ==
    /\ other_ppc \in {"idle", "failed"}
    /\ \E fetched \in {<<>>} \cup {<<msg>> : msg \in graph_inbox} :
          LET stored == IF fetched = <<>> THEN emails
                        ELSE store_email(emails, fetched[1].content, now - fetched[1].age)
              pass == deterministic_pass(stored, classification_log, override_log, now)
          IN  /\ Len(stored) <= MaxEmails
              /\ IF deterministic_pass_raises(stored, classification_log, now)
                 THEN /\ emails' = stored
                      /\ UNCHANGED <<classification_log, override_log, other_remaining_unprocessed>>
                      /\ other_ppc' = "failed"
                 ELSE /\ Len(pass.override_log) <= MaxOverrideLog
                      /\ emails' = pass.emails
                      /\ classification_log' = pass.classification_log
                      /\ override_log' = pass.override_log
                      /\ other_remaining_unprocessed' =
                            IdsFrom(unprocessed_emails(pass.emails, pass.classification_log, now),
                                    1, Len(stored))
                      /\ other_ppc' = "phase4"
    /\ UNCHANGED <<now, ai_batch_response>>
    /\ UNCHANGED <<avars, svars, dvars, cvars, ovars, gvars, ppc, remaining_unprocessed>>

\* one round of the phase 4 loop of the second execution
OtherPhase4Classify ==
    /\ other_ppc = "phase4"
    /\ other_remaining_unprocessed # <<>>
    /\ \E category_id \in AiCategories :
          LET id == Head(other_remaining_unprocessed)
          IN  /\ emails' = [emails EXCEPT ![id] = ai_classified(@, category_id)]
              /\ classification_log' =
                    Append(classification_log,
                           ClassificationLogEntry(id, category_id, "reasoning", "ai", 80, now))
    /\ other_remaining_unprocessed' = Tail(other_remaining_unprocessed)
    /\ UNCHANGED <<override_log, now, other_ppc, ai_batch_response>>
    /\ UNCHANGED <<avars, svars, dvars, cvars, ovars, gvars, ppc, remaining_unprocessed>>

\* the end of phase 4 and phases 5 to 7 of the second execution
OtherPipelineFinish ==
    /\ other_ppc = "phase4"
    /\ other_remaining_unprocessed = <<>>
    /\ emails' = phase6_assignment(phase5_scoring(emails, now), now)
    /\ other_ppc' = "idle"
    /\ UNCHANGED <<classification_log, override_log, now, other_remaining_unprocessed,
                   ai_batch_response>>
    /\ UNCHANGED <<avars, svars, dvars, cvars, ovars, gvars, ppc, remaining_unprocessed>>

NextOverlap ==
    \/ RunPipelinePhases1To3
    \/ Phase4Classify
    \/ PipelineFinish
    \/ OtherRunPhases1To3
    \/ OtherPhase4Classify
    \/ OtherPipelineFinish
    \/ Tick

SpecOverlap == InitPipeline /\ [][NextOverlap]_vars

\* ------------------------------------------------------------------------
\* Properties of assign_due_dates
\* ------------------------------------------------------------------------
AssignmentsOf(id) == {i \in 1..Len(assignments) : assignments[i].email_id = id}

FlaggedIds == {i \in 1..Len(scored_emails) :
                  scored_emails[i].floor_override \/ scored_emails[i].force_today}

UnflaggedIds == (1..Len(scored_emails)) \ FlaggedIds

\* C1: every item with floor_override or force_today set gets exactly one
\* assignment, and it is slot "today", due today, pool "floor", whatever the
\* task_limit and however many such items there are.
C1_FloorPoolAlwaysToday ==
    apc = "assigned" =>
        \A id \in FlaggedIds :
            /\ Cardinality(AssignmentsOf(id)) = 1
            /\ \A i \in AssignmentsOf(id) :
                  /\ assignments[i].slot = "today"
                  /\ assignments[i].due_date = today
                  /\ assignments[i].pool = "floor"

\* C1 witness: an assigned batch whose flagged items outnumber task_limit,
\* with a force_today-only item and a standard item in it.
C1_Witness ==
    /\ apc = "assigned"
    /\ Cardinality(FlaggedIds) > settings.task_limit
    /\ settings.task_limit > 0
    /\ UnflaggedIds # {}
    /\ \E id \in FlaggedIds : ~scored_emails[id].floor_override

\* 0-based position of an unflagged item in the standard pool once it is
\* ordered by urgency_score descending with ties in input order
RankOf(id) ==
    Cardinality({j \in UnflaggedIds :
        \/ scored_emails[j].urgency_score > scored_emails[id].urgency_score
        \/ /\ scored_emails[j].urgency_score = scored_emails[id].urgency_score
           /\ j < id})

CapacityA == IF settings.task_limit - Cardinality(FlaggedIds) > 0
             THEN settings.task_limit - Cardinality(FlaggedIds) ELSE 0

C3_ScoreAtFloorAlwaysToday ==
    (apc = "assigned" /\ settings.task_limit >= 1) =>
        \A id \in 1..Len(scored_emails) :
            scored_emails[id].urgency_score >= settings.urgency_floor =>
                \A i \in AssignmentsOf(id) : assignments[i].slot = "today"

\* the assignment of an item that has exactly one
TheAssignment(id) == assignments[CHOOSE i \in AssignmentsOf(id) : TRUE]

\* the first day after t that falls on the given weekday (0 = Monday)
FirstAfter(t, weekday) == CHOOSE d \in (t + 1)..(t + 7) : d % 7 = weekday

C18_BelowThresholdNeverDated ==
    apc = "assigned" =>
        \A id \in UnflaggedIds :
            scored_emails[id].urgency_score < settings.time_pressure_threshold =>
                \A i \in AssignmentsOf(id) :
                    assignments[i].slot = "no_date" /\ assignments[i].due_date = None

SlotOrder(slot) ==
    CASE slot = "today" -> 0
      [] slot = "tomorrow" -> 1
      [] slot = "this_week" -> 2
      [] slot = "next_week" -> 3
      [] slot = "no_date" -> 4

\* C19: the standard pool is processed by urgency_score descending, equal
\* scores in input order: an item that has a higher score than another, or
\* the same score and an earlier input position, comes earlier in the
\* returned list and never gets a later slot.
C19_DescendingStableOrder ==
    apc = "assigned" =>
        \A id \in UnflaggedIds : \A other \in UnflaggedIds :
            (\/ scored_emails[id].urgency_score > scored_emails[other].urgency_score
             \/ /\ scored_emails[id].urgency_score = scored_emails[other].urgency_score
                /\ id < other) =>
                /\ \A i \in AssignmentsOf(id) : \A j \in AssignmentsOf(other) : i < j
                /\ SlotOrder(TheAssignment(id).slot) <= SlotOrder(TheAssignment(other).slot)

\* C19 witness: a low-score item entered before two items of equal higher
\* score; the three end in three different slots.
C19_Witness ==
    /\ apc = "assigned"
    /\ \E low \in UnflaggedIds : \E a \in UnflaggedIds : \E b \in UnflaggedIds :
          /\ low < a /\ a < b
          /\ scored_emails[low].urgency_score < scored_emails[a].urgency_score
          /\ scored_emails[a].urgency_score = scored_emails[b].urgency_score
          /\ SlotOrder(TheAssignment(a).slot) < SlotOrder(TheAssignment(b).slot)
          /\ SlotOrder(TheAssignment(b).slot) < SlotOrder(TheAssignment(low).slot)

\* C20: for every weekday of today, the date given to this_week items lies
\* in [today, today + 6] and is a Friday, and the date given to next_week
\* items lies in [today + 1, today + 7], is a Monday and is not today.
C20_AssignmentDateLaw ==
    apc = "assigned" =>
        \A i \in 1..Len(assignments) :
            /\ assignments[i].slot = "this_week" =>
                  /\ today <= assignments[i].due_date
                  /\ assignments[i].due_date <= today + 6
                  /\ assignments[i].due_date % 7 = 4
            /\ assignments[i].slot = "next_week" =>
                  /\ today + 1 <= assignments[i].due_date
                  /\ assignments[i].due_date <= today + 7
                  /\ assignments[i].due_date % 7 = 0
                  /\ assignments[i].due_date # today

\* C20 witness: a batch assigned on a Monday with an item dated next Monday,
\* seven days on.
C20_Witness ==
    /\ apc = "assigned"
    /\ today % 7 = 0
    /\ \E i \in 1..Len(assignments) :
          assignments[i].slot = "next_week" /\ assignments[i].due_date = today + 7

\* ------------------------------------------------------------------------
\* Properties of classify_deterministic
\* ------------------------------------------------------------------------
\* the five rules in the documented order, each with the category it yields
RuleResults ==
    <<check_calendar(det_email), check_marketing(det_email), check_travel(det_email),
      check_notification(det_email, det_user_email), check_fyi(det_email, det_user_email)>>

RuleCategories == <<8, 6, 11, 7, 9>>

MatchingRules == {k \in 1..5 : RuleResults[k] # NoResult}

\* C4: given a user address, classify_deterministic returns the result of the
\* first rule that matches in the order Calendar (8), Marketing (6), Travel
\* (11), Notification (7), FYI (9), and None when no rule matches; an email
\* from a calendar-system sender that carries marketing keywords is Calendar.
C4_FirstMatchingRuleWins ==
    (cpc = "classified" /\ det_user_email # "") =>
        /\ MatchingRules = {} => det_result = NoResult
        /\ \A k \in MatchingRules :
              (\A j \in MatchingRules : k <= j) =>
                  /\ det_result = RuleResults[k]
                  /\ det_result.category_id = RuleCategories[k]
        /\ (/\ det_email.from_address \in CALENDAR_SENDERS
            /\ contains_keyword(PhrasesOf(det_email.subject), MARKETING_SUBJECT_KEYWORDS))
              => det_result.category_id = 8

\* C4 witness: a classified email from a calendar-system sender whose address
\* also matches a marketing sender pattern and whose subject carries a
\* marketing keyword, with a List-Unsubscribe header.
C4_Witness ==
    /\ cpc = "classified"
    /\ det_user_email # ""
    /\ det_email.from_address \in CALENDAR_SENDERS
    /\ det_email.body = {}
    /\ det_email.subject = <<"sale">>
    /\ Cardinality(MatchingRules) >= 2
    /\ det_result.category_id = 8

\* ------------------------------------------------------------------------
\* Properties of check_override
\* ------------------------------------------------------------------------
\* the five triggers in the documented order with the conditions under which
\* each is considered
TriggerNames ==
    <<"urgency_language", "vip_sender", "sole_recipient_mismatch",
      "reply_chain_participation", "direct_address">>

TriggerMatches ==
    <<contains_urgency_language(PhrasesOf(ovr_email.subject) \cup ovr_email.body) # "",
      is_vip_sender(ovr_email.from_address, VIP_SENDERS, VIP_DOMAINS),
      ovr_category = 9 /\ is_sole_to_recipient(ovr_email.to_recipients, USER_EMAIL),
      ovr_db.present
        /\ check_reply_chain_participation(ovr_email.conversation_id, USER_EMAIL,
                                           [present |-> TRUE, emails |-> ovr_db.emails]),
      has_direct_address(ovr_email.body, ovr_first_name)>>

MatchingTriggers == {k \in 1..5 : TriggerMatches[k]}

\* C5: on an Other category check_override returns the first trigger that
\* matches in the order urgency_language, vip_sender, sole_recipient_mismatch
\* (only for category 9), reply_chain_participation (only with a thread
\* lookup), direct_address, and override = False when none matches.
C5_FirstMatchingTriggerWins ==
    (opc = "checked" /\ ovr_category \in {6, 7, 8, 9, 11}) =>
        /\ MatchingTriggers = {} => ovr_result = [override |-> FALSE, trigger |-> "",
                                                  reason |-> <<"", "">>]
        /\ \A k \in MatchingTriggers :
              (\A j \in MatchingTriggers : k <= j) =>
                  /\ ovr_result.override
                  /\ ovr_result.trigger = TriggerNames[k]

\* C5 witness: a checked FYI email on which the VIP, sole-recipient,
\* reply-chain and direct-address triggers all match and the urgency trigger
\* does not; the VIP trigger is the one reported.
C5_Witness ==
    /\ opc = "checked"
    /\ ovr_category = 9
    /\ MatchingTriggers = {2, 3, 4, 5}
    /\ ovr_result.trigger = "vip_sender"

\* the user is the only To: recipient of the classified email
UserIsSoleTo ==
    /\ det_user_email # ""
    /\ Len(det_email.to_recipients) = 1
    /\ lower(det_email.to_recipients[1]) = lower(det_user_email)

\* the subject or the body of the classified email holds an urgency keyword
TextIsUrgent ==
    \E ph \in PhrasesOf(det_email.subject) \cup det_email.body : lower(ph) \in DET_URGENCY_KEYWORDS

\* C23: classify_deterministic never returns Notification (7) for an email
\* on which the user is the sole To: recipient and whose subject or body
\* contains urgency language.
C23_NoNotificationForDirectedUrgentMail ==
    (cpc = "classified" /\ UserIsSoleTo /\ TextIsUrgent) => det_result.category_id # 7

\* the sender domain of the classified email is in the Travel or the
\* Notification registry
SenderInTravelOrNotificationRegistry ==
    lower(det_email.from_address.domain) \in TRAVEL_DOMAINS \cup NOTIFICATION_DOMAINS

\* C24: classify_deterministic never returns Marketing (6) for an email whose
\* sender domain is in the Travel or Notification registry, whatever its
\* headers, sender local part or subject keywords.
C24_NoMarketingForTravelOrNotificationDomain ==
    (cpc = "classified" /\ SenderInTravelOrNotificationRegistry) => det_result.category_id # 6

\* C24 witness: noreply@delta.com with a List-Unsubscribe header and the
\* subject keyword "sale" is classified Travel.
C24_Witness ==
    /\ cpc = "classified"
    /\ det_email.from_address = [local |-> "noreply", domain |-> "delta.com"]
    /\ "List-Unsubscribe" \in det_email.headers
    /\ det_email.subject = <<"sale">>
    /\ det_result.category_id = 11

\* C22: check_override called with a current_category outside
\* {6, 7, 8, 9, 11} (a Work category, a reserved number or none) returns
\* override = False with no trigger, whatever triggers the email's text,
\* sender, recipients or thread history would match.
C22_NoOverrideOutsideOtherCategories ==
    (opc = "checked" /\ ovr_category \notin {6, 7, 8, 9, 11}) =>
        /\ ovr_result.override = FALSE
        /\ ovr_result.trigger = ""

\* C22 witness: a checked email of Work category 2 on which the urgency, VIP,
\* reply-chain and direct-address triggers would all match, and a checked
\* email with no category on which the urgency trigger would match.
C22_Witness ==
    /\ opc = "checked"
    /\ \/ ovr_category = 2 /\ MatchingTriggers = {1, 2, 4, 5}
       \/ ovr_category = None /\ 1 \in MatchingTriggers

\* ------------------------------------------------------------------------
\* Properties of the pipeline and the batch routes
\* ------------------------------------------------------------------------
\* the rows a deterministic step loops over: the table with the rows phase 1
\* has just stored, as store_emails leaves them
RowsSeen ==
    [id \in 1..Len(emails') |->
        IF id <= Len(emails) THEN emails[id]
        ELSE [emails'[id] EXCEPT !.status = "unprocessed", !.category_id = None,
                                 !.confidence = None]]

\* positions of the override-log entries a step appends for a row
NewOverrideEntries(id) ==
    {i \in (Len(override_log) + 1)..Len(override_log') : override_log'[i].email_id = id}

RevertedAndLogged(id, original_category, override_result) ==
    /\ emails'[id].category_id = None
    /\ emails'[id].status = "unprocessed"
    /\ Cardinality(NewOverrideEntries(id)) = 1
    /\ \A i \in NewOverrideEntries(id) :
          /\ override_log'[i].original_category = original_category
          /\ override_log'[i].trigger_type = override_result.trigger
          /\ override_log'[i].reason = override_result.reason

\* a step of the pipeline from the Graph response to the first AI call: no
\* other step takes the pipeline into phase 4
PipelineDeterministicStep == ppc # "phase4" /\ ppc' = "phase4"

\* a step that leaves everything but the three tables alone and adds no row
BatchRouteFrame ==
    /\ UNCHANGED <<now, ppc, remaining_unprocessed, ai_batch_response>>
    /\ Len(emails') = Len(emails)

\* C6: in pipeline phase 2, in the classify-deterministic batch and in the
\* check-overrides batch, a row for which check_override returns override =
\* True ends the step with category null and status "unprocessed" and exactly
\* one override-log entry with its original category, trigger and reason is
\* appended; a row for which it returns False keeps the deterministic
\* category with status "classified".
C6_OverrideRevertsAndLogs ==
    [][/\ (PipelineDeterministicStep \/ (BatchRouteFrame /\ ClassifyDeterministicBatch)) =>
            /\ SubSeq(override_log', 1, Len(override_log)) = override_log
            /\ \A id \in unprocessed_emails(RowsSeen, classification_log, now) :
                  LET result == classify_deterministic(RowsSeen[id].content, USER_EMAIL)
                      override_result ==
                          check_override(RowsSeen[id].content, result.category_id,
                                         USER_EMAIL, USER_FIRST_NAME, db_session(RowsSeen),
                                         VIP_SENDERS, VIP_DOMAINS)
                  IN  result # NoResult =>
                        IF override_result.override
                        THEN RevertedAndLogged(id, result.category_id, override_result)
                        ELSE /\ emails'[id].category_id = result.category_id
                             /\ emails'[id].status = "classified"
                             /\ NewOverrideEntries(id) = {}
       /\ (BatchRouteFrame /\ CheckOverridesBatch) =>
            /\ SubSeq(override_log', 1, Len(override_log)) = override_log
            /\ \A id \in 1..Len(emails) :
                  (emails[id].status = "classified"
                     /\ emails[id].category_id \in {6, 7, 8, 9, 11}) =>
                  LET override_result ==
                          check_override(emails[id].content, emails[id].category_id,
                                         USER_EMAIL, USER_FIRST_NAME, db_session(emails),
                                         VIP_SENDERS, VIP_DOMAINS)
                  IN  IF override_result.override
                      THEN RevertedAndLogged(id, emails[id].category_id, override_result)
                      ELSE /\ emails'[id].category_id = emails[id].category_id
                           /\ emails'[id].status = "classified"
                           /\ NewOverrideEntries(id) = {}]_vars

\* C6 witness: a row that was classified by a deterministic step, reverted
\* the same day by check-overrides, and reverted again by a deterministic
\* step once the recent-processing window had closed; it is unclassified and
\* the override log holds exactly these two entries.
C6_Witness ==
    /\ Len(override_log) = 2
    /\ \E id \in 1..Len(emails) : \E k \in 1..Len(classification_log) :
          /\ classification_log[k].email_id = id
          /\ classification_log[k].classifier_type = "deterministic"
          /\ override_log[1].email_id = id
          /\ override_log[1].timestamp = classification_log[k].created_at
          /\ override_log[1].original_category = classification_log[k].category_id
          /\ override_log[2].email_id = id
          /\ override_log[2].timestamp > classification_log[k].created_at + RECENT_PROCESSING_DAYS
          /\ emails[id].status = "unprocessed"
          /\ emails[id].category_id = None

\* a row that an override has reverted and that was received less than 45
\* days ago
RevertedFresh(id) ==
    /\ emails[id].status = "unprocessed"
    /\ emails[id].category_id = None
    /\ \E i \in 1..Len(override_log) : override_log[i].email_id = id
    /\ emails[id].received_at > now - CUTOFF_DAYS

\* C7 (as claimed): every row received less than 45 days ago that an override
\* has reverted is classified by the next AI pass: the classify-ai batch
\* classifies it, and the pipeline takes it into phase 4, which classifies
\* every row it took.
C7_RevertedRowsClassifiedByNextAiPass ==
    [][/\ ClassifyAiBatch =>
            \A id \in 1..Len(emails) :
                RevertedFresh(id) => /\ emails'[id].status = "classified"
                                     /\ emails'[id].category_id \in 1..5
       /\ RunPipelinePhases1To3 =>
            \A id \in 1..Len(emails') :
                RevertedFresh(id)' =>
                    \E i \in 1..Len(remaining_unprocessed') : remaining_unprocessed'[i] = id
       /\ Phase4Classify =>
            /\ emails'[Head(remaining_unprocessed)].status = "classified"
            /\ emails'[Head(remaining_unprocessed)].category_id \in 1..5]_vars

\* ------------------------------------------------------------------------
\* Properties of score_email
\* ------------------------------------------------------------------------
\* C8: the eight signal weights sum to exactly 1.0 (100 hundredths) and the
\* raw_score of every scored email lies in [0, 100].
C8_WeightsSumAndRawScoreRange ==
    /\ SIGNAL_WEIGHTS.explicit_deadline + SIGNAL_WEIGHTS.sender_seniority
         + SIGNAL_WEIGHTS.importance_flag + SIGNAL_WEIGHTS.urgency_language
         + SIGNAL_WEIGHTS.thread_velocity + SIGNAL_WEIGHTS.client_external
         + SIGNAL_WEIGHTS.age_of_email + SIGNAL_WEIGHTS.followup_overdue = 100
    /\ DOMAIN SIGNAL_WEIGHTS = {SignalNames[k] : k \in 1..Len(SignalNames)}
    /\ spc = "scored" =>
          (0 <= score_result.raw_score /\ score_result.raw_score <= 100 * 100)

\* C8 witness: a scored email whose negative importance and urgency-language
\* signals outweigh the rest, so that the weighted sum is below zero.
C8_Witness ==
    /\ spc = "scored"
    /\ score_result.signals.importance_flag < 0
    /\ score_result.signals.urgency_language < 0
    /\ 10 * score_result.signals.importance_flag + 15 * score_result.signals.urgency_language
         + 15 * score_result.signals.sender_seniority < 0
    /\ score_result.signals.explicit_deadline = 0
    /\ score_result.signals.thread_velocity = 0
    /\ score_result.signals.client_external = 0
    /\ score_result.signals.age_of_email = 0
    /\ score_result.signals.followup_overdue = 0
    /\ score_result.raw_score = 0

\* C9 (as claimed, on the raw scores that are whole numbers): every item with
\* stale_days >= 11 gets force_today = true, score 100 and
\* stale_bonus = 100 - raw_score.
C9_StaleEscalationFromDay11 ==
    (/\ spc = "scored"
     /\ email_dict.received.kind = "ok"
     /\ email_dict.received.hours >= 24 * 11
     /\ score_result.raw_score % 100 = 0) =>
        /\ score_result.force_today
        /\ score_result.urgency_score = 100
        /\ 100 * score_result.stale_bonus = 100 * 100 - score_result.raw_score

\* C10: the urgency-floor stage sets floor_override exactly when the adjusted
\* score is at or above the threshold (90) and returns the adjusted score
\* unchanged as the final score.
C10_UrgencyFloorStage ==
    spc = "scored" =>
        /\ floor_stage.floor_override = (stale_stage.adjusted_score >= 100 * 90)
        /\ floor_stage.final_score = stale_stage.adjusted_score
        /\ score_result.floor_override = floor_stage.floor_override

\* C10 witness: an email whose adjusted score is exactly 90.00 after a stale
\* bonus was added, flagged floor_override.
C10_Witness ==
    /\ spc = "scored"
    /\ stale_stage.adjusted_score = 100 * 90
    /\ stale_stage.stale_bonus > 0
    /\ floor_stage.floor_override


\* ------------------------------------------------------------------------
\* C15: a day-of-week deadline term naming weekday w, read on a day of weekday
\* c, resolves to today + ((w - c) mod 7), a date in [today, today + 6] that
\* falls on weekday w; only 'next w' read on weekday w resolves to today + 7.
\* ------------------------------------------------------------------------
WeekdayOf(day) == CHOOSE i \in 0..6 : DayNames[i + 1] = day

ClaimedDaysAhead(text, t) ==
    LET k == (WeekdayOf(text.day) - (t % 7)) % 7
    IN  IF k = 0 /\ text.prefix = "next" THEN 7 ELSE k

C15_DayOfWeekDeadline ==
    dpc = "found" =>
        /\ deadline_date = deadline_today + ClaimedDaysAhead(deadline_text, deadline_today)
        /\ deadline_date % 7 = WeekdayOf(deadline_text.day)
        /\ ClaimedDaysAhead(deadline_text, deadline_today) # 7 =>
              deadline_date \in deadline_today..(deadline_today + 6)

\* ------------------------------------------------------------------------
\* C14: score_email never raises on an item whose subject, body or
\* body_preview is missing, null or empty, or whose received_at is missing or
\* unparseable: with no text the text-derived signals are 0, and with no
\* usable received_at the age signal is 0 and stale escalation is skipped
\* (stale_days 0, stale_bonus 0, force_today false).
\* ------------------------------------------------------------------------
TextSignalsZero ==
    /\ score_result.signals.explicit_deadline = 0
    /\ score_result.signals.urgency_language = 0
    /\ score_result.signals.followup_overdue = 0

AgeAndStaleSkipped ==
    /\ score_result.signals.age_of_email = 0
    /\ score_result.stale_days = 0
    /\ score_result.stale_bonus = 0
    /\ score_result.force_today = FALSE

C14_ScoreEmailDegradesOnIncompleteInput ==
    /\ spc # "raised"
    /\ spc = "scored" /\ NoTextIn(email_dict) => TextSignalsZero
    /\ spc = "scored" /\ email_dict.received.kind # "ok" => AgeAndStaleSkipped

\* ------------------------------------------------------------------------
\* Properties of the triage workflow
\* ------------------------------------------------------------------------
\* what the claim gives as followup_overdue for a row scored at time t
ClaimedFollowupOverdue(row, t) ==
    IF row.category_id = 4 /\ row.content.deadline # <<>> /\ row.content.deadline[1] < t
    THEN Min(15 * (t - row.content.deadline[1]), 100)
    ELSE 0

\* C16: in the scoring stage of the orchestrator (pipeline phase 5 and the
\* /score batch) a scored item of category 4 whose text names a deadline d
\* earlier than today gets followup_overdue = min(15 x days between d and
\* today, 100), and every other scored item gets followup_overdue = 0.
C16_FollowupOverdueInScoringStage ==
    [][/\ PipelineFinish =>
            \A id \in work_emails(emails) :
                ~score_email_raises(email_to_dict(emails, emails[id], now)) =>
                    urgency_record_of(emails'[id]).signals.followup_overdue
                        = ClaimedFollowupOverdue(emails[id], now)
       /\ ScoreBatch =>
            \A id \in work_emails(emails) :
                ~score_email_raises(score_route_dict(emails[id], now)) =>
                    urgency_record_of(emails'[id]).signals.followup_overdue
                        = ClaimedFollowupOverdue(emails[id], now)]_vars

\* a step gives row id a category it did not have: the row is new and
\* leaves the step with a category, or its category differs from before
CategoryChanged(id) ==
    IF id > Len(emails) THEN emails'[id].category_id # None
    ELSE emails'[id].category_id # emails[id].category_id

\* C12: after any operation that assigns an Other category (6, 7, 8, 9, 11)
\* to an item - deterministic classification in the pipeline or the batch
\* route, POST or PUT /{email_id}/reclassify, approval with a category_id -
\* the item's urgency_score and due_date are null.
C12_OtherCategoryClearsUrgencyData ==
    [][\A id \in 1..Len(emails') :
          CategoryChanged(id) /\ emails'[id].category_id \in OtherCategories =>
              /\ emails'[id].urgency_score = None
              /\ emails'[id].due_date = None]_vars

\* positions of the classification-log entries a step appends for a row
NewClassificationEntries(id) ==
    {i \in (Len(classification_log) + 1)..Len(classification_log') :
        classification_log'[i].email_id = id}

ClassifierTypes == {"deterministic", "ai", "manual", "override"}

\* C13: every operation that changes an item's category - deterministic
\* classification, AI classification, manual reclassification, an override
\* reverting the item to unclassified, approval with a category_id - appends
\* a classification-log entry for the item, carrying the new category and
\* the classifier_type of the change.
C13_CategoryChangeIsLogged ==
    [][\A id \in 1..Len(emails') :
          CategoryChanged(id) =>
              \E i \in NewClassificationEntries(id) :
                  /\ classification_log'[i].category_id = emails'[id].category_id
                  /\ classification_log'[i].classifier_type \in ClassifierTypes]_vars

\* what phase 2 leaves of a selected row that raises no exception
DeterministicallyProcessed(id) ==
    LET result == classify_deterministic(RowsSeen[id].content, USER_EMAIL)
    IN  result # NoResult =>
            \/ emails'[id].status = "classified" /\ emails'[id].category_id = result.category_id
            \/ NewOverrideEntries(id) # {}

\* C11: in run_full_pipeline an exception raised while processing one item in
\* a per-item stage (deterministic classification with override check, AI
\* classification, scoring) does not abort the run, the other items of the
\* batch are processed and committed, and the failing item keeps its prior
\* classification and scoring state.
C11_ItemFailureDoesNotAbortTheRun ==
    [][/\ RunPipelinePhases1To3 =>
            /\ ppc' = "phase4"
            /\ \A id \in unprocessed_emails(RowsSeen, classification_log, now) :
                  IF classify_deterministic_raises(RowsSeen[id].content)
                  THEN emails'[id] = RowsSeen[id]
                  ELSE DeterministicallyProcessed(id)
       /\ Phase4ClassifyFails =>
            /\ ppc' = "phase4"
            /\ emails' = emails
            /\ remaining_unprocessed' = Tail(remaining_unprocessed)
       /\ PipelineFinish =>
            /\ ppc' = "idle"
            /\ \A id \in work_emails(emails) :
                  IF score_email_raises(email_to_dict(emails, emails[id], now))
                  THEN /\ emails'[id].urgency_score = emails[id].urgency_score
                       /\ emails'[id].urgency_records = emails[id].urgency_records
                       /\ emails'[id].category_id = emails[id].category_id
                  ELSE emails'[id].urgency_score
                          = score_email(email_to_dict(emails, emails[id], now)).urgency_score]_vars

\* ------------------------------------------------------------------------
\* Properties of get_assignment_summary
\* ------------------------------------------------------------------------
\* the floor-pool items of the batch the assignment was run on
FloorItemsOf(batch) == {i \in 1..Len(batch) : batch[i].floor_override \/ batch[i].force_today}

\* C21: the summary of an assignment reports floor_overflow = true exactly
\* when the number of floor-pool items exceeds the task_limit the assignment
\* was run with.
C21_FloorOverflowFollowsTaskLimit ==
    summary.called =>
        (summary.floor_overflow <=> Cardinality(FloorItemsOf(scored_emails)) > settings.task_limit)

\* ------------------------------------------------------------------------
\* Properties of the order classification, scoring, assignment
\* ------------------------------------------------------------------------
\* a step of run_full_pipeline
PipelineRunStep == RunPipelinePhases1To3 \/ Phase4Classify \/ PipelineFinish

\* the urgency data of row id before the step (a row the step stores has none)
UrgencyDataBefore(id) ==
    IF id <= Len(emails)
    THEN <<emails[id].urgency_score, emails[id].due_date, emails[id].urgency_records>>
    ELSE <<None, None, <<>>>>

UrgencyDataAfter(id) ==
    <<emails'[id].urgency_score, emails'[id].due_date, emails'[id].urgency_records>>

\* C25: a pipeline run writes an urgency score or a due date only to rows
\* that are classified with a Work category (1-5), and gives a due date only
\* to rows that have a stored score: rows with an Other category or no
\* category keep their urgency data, and a row whose due date changes has an
\* urgency score and an urgency_scores record.
C25_ScoringAndAssignmentOnlyForWorkItems ==
    [][PipelineRunStep =>
         \A id \in 1..Len(emails') :
            /\ (emails'[id].category_id \notin 1..5 \/ emails'[id].status # "classified") =>
                    UrgencyDataAfter(id) = UrgencyDataBefore(id)
            /\ UrgencyDataAfter(id)[2] # UrgencyDataBefore(id)[2] =>
                    /\ emails'[id].urgency_score # None
                    /\ emails'[id].urgency_records # <<>>]_vars

\* C25 witness: after a pipeline run a classified Marketing row has no score
\* and no due date next to a Work row that is scored and dated.
C25_Witness ==
    /\ ppc = "idle"
    /\ \E id, other \in 1..Len(emails) :
          /\ emails[id].category_id = 6 /\ emails[id].status = "classified"
          /\ emails[id].urgency_score = None /\ emails[id].due_date = None
          /\ emails[other].category_id \in 1..5
          /\ emails[other].urgency_score # None /\ emails[other].due_date # None

\* ------------------------------------------------------------------------
\* Properties of repeated scoring
\* ------------------------------------------------------------------------
\* a scoring pass: phase 5 of a pipeline run or a POST /score batch
ScoringPass == PipelineFinish \/ ScoreBatch

\* row id is one of the rows the pass scores
ScoredByPass(id) == emails[id].status = "classified" /\ emails[id].category_id \in 1..5

\* C26: after every scoring pass (pipeline phase 5 or the /score batch) each
\* row has at most one urgency_scores record, and the record of a row the
\* pass scored holds the values of this pass: the days the email has waited
\* as of now and the urgency score written to the row.
C26_RescoringRecomputesInPlace ==
    [][ScoringPass =>
         \A id \in 1..Len(emails) :
            /\ Len(emails'[id].urgency_records) <= 1
            /\ ScoredByPass(id) =>
                  /\ Len(emails'[id].urgency_records) = 1
                  /\ emails'[id].urgency_records[1].stale_days = now - emails[id].received_at
                  /\ emails'[id].urgency_records[1].urgency_score = emails'[id].urgency_score]_vars

\* C26 witness: a row stored on day 0 and scored again four days later has
\* one record, with stale_days 4.
C26_Witness ==
    /\ now = DaysPerTick
    /\ \E id \in 1..Len(emails) :
          /\ emails[id].received_at = 0
          /\ Len(emails[id].urgency_records) = 1
          /\ emails[id].urgency_records[1].stale_days = DaysPerTick

\* ------------------------------------------------------------------------
\* Shape of the result of assign_due_dates
\* ------------------------------------------------------------------------
\* the positions of the returned list that carry email_id id
AssignmentsFor(id) == {i \in 1..Len(assignments) : assignments[i].email_id = id}

\* C27: assign_due_dates returns exactly one assignment per input item (same
\* email_ids, same count), each with pool floor or standard and slot today,
\* tomorrow, this_week, next_week or no_date, and due_date is null exactly
\* when the slot is no_date.
C27_OneWellFormedAssignmentPerItem ==
    apc = "assigned" =>
        /\ Len(assignments) = Len(scored_emails)
        /\ \A k \in 1..Len(scored_emails) :
              Cardinality(AssignmentsFor(scored_emails[k].email_id)) = 1
        /\ \A i \in 1..Len(assignments) :
              /\ assignments[i].pool \in {"floor", "standard"}
              /\ assignments[i].slot \in {"today", "tomorrow", "this_week", "next_week", "no_date"}
              /\ assignments[i].due_date = None <=> assignments[i].slot = "no_date"

\* C27 witness: a batch of four with floor and standard items, one of them
\* without a date and one with a date next week.
C27_Witness ==
    /\ apc = "assigned"
    /\ Len(scored_emails) = MaxBatch
    /\ \E i, j, k \in 1..Len(assignments) :
          /\ assignments[i].pool = "floor"
          /\ assignments[j].slot = "no_date" /\ assignments[j].due_date = None
          /\ assignments[k].slot = "next_week" /\ assignments[k].due_date # None

\* ------------------------------------------------------------------------
\* Properties of the stale escalation inside score_email
\* ------------------------------------------------------------------------
\* C28: in every result of score_email, force_today = true implies
\* urgency_score = 100 and floor_override = true.
C28_ForcedTodayIsFloorItem ==
    (spc = "scored" /\ score_result.force_today) =>
        /\ score_result.urgency_score = 100
        /\ score_result.floor_override

\* C28 witness: an email that has waited 11 days or more with a raw score
\* below the urgency floor, forced today with score 100 and the floor flag.
C28_Witness ==
    /\ spc = "scored"
    /\ score_result.force_today
    /\ score_result.raw_score < 100 * URGENCY_FLOOR_THRESHOLD
    /\ score_result.urgency_score = 100
    /\ score_result.floor_override

\* the email of the state had it waited for days days
WaitedFor(days) == [email_dict EXCEPT !.received = [kind |-> "ok", hours |-> 24 * days]]

\* C29: for a fixed raw_score the stale bonus and the adjusted score of
\* apply_stale_escalation never decrease as stale_days grows from 0 upward:
\* the scored email gets at least the bonus and the adjusted score it would
\* have got after any shorter wait.
C29_StaleEscalationMonotone ==
    (spc = "scored" /\ email_dict.received.kind = "ok" /\ stale_stage.stale_days >= 0) =>
        \A days \in 0..stale_stage.stale_days :
            /\ apply_stale_escalation(WaitedFor(days), score_result.raw_score).stale_bonus
                    <= stale_stage.stale_bonus
            /\ apply_stale_escalation(WaitedFor(days), score_result.raw_score).adjusted_score
                    <= stale_stage.adjusted_score

\* ------------------------------------------------------------------------
\* Properties of overlapping pipeline executions
\* ------------------------------------------------------------------------
\* the rows a phase 4 loop has still to send to classify_with_ai
RowsOf(remaining) == {remaining[i] : i \in 1..Len(remaining)}

\* the 'ai' entries of the classification log for row id
AiEntriesFor(id) ==
    {i \in 1..Len(classification_log) :
        /\ classification_log[i].email_id = id
        /\ classification_log[i].classifier_type = "ai"}

\* C30: when two executions of run_full_pipeline overlap, no unprocessed row
\* is in the phase 4 loop of both (and so sent to the AI classifier by both),
\* and no row gets two 'ai' classification-log entries for the same
\* unclassified episode.
C30_OverlappingRunsClassifyEachItemOnce ==
    /\ (ppc = "phase4" /\ other_ppc = "phase4") =>
            RowsOf(remaining_unprocessed) \cap RowsOf(other_remaining_unprocessed) = {}
    /\ \A id \in 1..Len(emails) : Cardinality(AiEntriesFor(id)) <= 1

====
